---------------------------- MODULE Spec2Model ----------------------------
(***************************************************************************)
(* Eagles Events back office: the quote/customer status lifecycle and the  *)
(* scheduled cleanup sweep of the API server (server entry point,          *)
(* src/unnamed/part_001), over a document store with the collections       *)
(* quotes, customers, messages and admin accounts.                         *)
(***************************************************************************)
EXTENDS Integers, Sequences, FiniteSets, TLC

VARIABLES
  now,        \* the process clock, Date.now()
  proc,       \* process position: "connecting", "running", "exited"
  exitCode,   \* process.exit code, -1 while the process lives
  armedAt,    \* time at which initializeApp armed the startup timeout
  timers,     \* armed timers: records [kind, due]
  sweeps,     \* one record per cleanupOldQuotations invocation, in order
  lastDelete, \* the last Customer.deleteMany the store answered
  customers,  \* customers collection: id -> document
  quotes,     \* quotes collection: id -> document
  messages,   \* messages collection
  admins,     \* admin accounts collection
  errorLog,   \* number of console.error lines written by the sweep
  infoLog,    \* number of "Cleaned up" console.log lines
  escaped,    \* TRUE once a rejection escaped cleanupOldQuotations
  ticks,      \* milliseconds passed while serving requests
  lastCall,   \* the last lifecycle call and what it returned
  listening,  \* the HTTP server accepts new requests
  inflight,   \* number of HTTP requests being served
  exitInflight, \* requests still being served when the process exited
  req,        \* the customer transition request between its load and its update
  dash,       \* the GET /api/admin/dashboard/stats request being served
  rq,         \* the routed request passing through its middleware chain
  pkgCall,    \* the last packageService call of the admin UI and its outcome
  layout,     \* the AdminLayout component: badge count, poll timer, fetches
  screen      \* the packages management screen: list, form flags, operations

vars == <<now, proc, exitCode, armedAt, timers, sweeps, lastDelete, customers,
          quotes, messages, admins, errorLog, infoLog, escaped, ticks, lastCall,
          listening, inflight, exitInflight, req, dash, rq, pkgCall,
          layout, screen>>

--------------------------------------------------------------------------
(* Bounds of the model *)

MaxSweeps == 2
MaxLateMs == 1
MaxQuotes == 2
MaxNewCustomers == 1
NumStoredCustomers == 2
MaxClockTicks == 1
MaxInflight == 2
BootDay == 100

--------------------------------------------------------------------------
(* Time.  Timestamps are millisecond counts (Date.now()); they are kept as *)
(* a day number and the milliseconds within the day.                       *)

ONE_DAY_MS == 24 * 60 * 60 * 1000

Ms(n) == [d |-> n \div ONE_DAY_MS, ms |-> n % ONE_DAY_MS]

TNorm(d, ms) == [d |-> d + (ms \div ONE_DAY_MS), ms |-> ms % ONE_DAY_MS]

TAdd(a, b) == TNorm(a.d + b.d, a.ms + b.ms)

TSub(a, b) == TNorm(a.d - b.d, a.ms - b.ms)

TMul(k, a) == TNorm(k * a.d, k * a.ms)

TLt(a, b) == a.d < b.d \/ (a.d = b.d /\ a.ms < b.ms)

TLe(a, b) == ~TLt(b, a)

THIRTY_DAYS_MS == TMul(30, Ms(ONE_DAY_MS))

STARTUP_DELAY_MS == Ms(10000)

BootTime == [d |-> BootDay, ms |-> 0]


--------------------------------------------------------------------------
(* The store *)

QuoteStatuses == {"pending", "approved", "rejected"}

TerminalQuoteStatuses == {"approved", "rejected"}

CustomerStatuses == {"quotation", "confirmed", "cancelled"}

\* the statuses a caller may ask for; "archived" is not a status of any record
QuoteTargets == QuoteStatuses \cup {"archived"}

CustomerTargets == CustomerStatuses \cup {"archived"}

CustomerIds == 1 .. (NumStoredCustomers + MaxNewCustomers)

\* the time the startup timeout is due when the store connects at boot
FirstSweepDue == TAdd(BootTime, STARTUP_DELAY_MS)

\* creation times of the customers already stored when the process boots:
\* 31 days, 30 days + 1 ms, exactly 30 days and 29 days before FirstSweepDue
StoredCreatedAt ==
  { TSub(FirstSweepDue, TMul(31, Ms(ONE_DAY_MS))),
    TSub(FirstSweepDue, TAdd(THIRTY_DAYS_MS, Ms(1))),
    TSub(FirstSweepDue, THIRTY_DAYS_MS),
    TSub(FirstSweepDue, TMul(29, Ms(ONE_DAY_MS))) }

\* the customers collection at boot, oldest first
StoredCustomers ==
  { f \in [ (1 .. NumStoredCustomers) ->
             [status : {"quotation"}, createdAt : StoredCreatedAt] ] :
      \A i, j \in 1 .. NumStoredCustomers :
        i < j => TLe(f[i].createdAt, f[j].createdAt) }

\* the quote of customer 1, approved before the process booted
StoredQuotes ==
  << [status |-> "approved", customer |-> 1,
      createdAt |-> TSub(BootTime, Ms(ONE_DAY_MS)),
      updatedAt |-> TSub(BootTime, Ms(1))] >>

StoredMessages == { [id |-> 1, isRead |-> FALSE, source |-> "contact"] }

StoredAdmins == { [id |-> 1, role |-> "admin"] }

NoCall == [op |-> "none", id |-> 0, target |-> "none", from |-> "none",
           err |-> "none"]

NoDelete == [sweep |-> 0, ok |-> FALSE, seen |-> << >>, deleted |-> {}]

procVars == <<proc, exitCode, armedAt, timers>>

sweepVars == <<sweeps, lastDelete, errorLog, infoLog, escaped>>

otherCollections == <<messages, admins>>

httpVars == <<listening, inflight, exitInflight>>

\* the state of the components an action of the sweep or the engine leaves alone
\* the components of the admin UI
uiVars == <<layout, screen>>

restVars == <<httpVars, req, dash, rq, pkgCall, uiVars>>

NoReq == [st |-> "none"]

DashIdle == [pc |-> "idle"]

NoRq == [st |-> "none"]

NoPkgCall == [op |-> "none"]

\* AdminLayout before it is mounted: useState(0), no timer, no listener
LayoutUnmounted ==
  [mounted |-> FALSE, inst |-> 0, count |-> 0, timer |-> FALSE,
   due |-> 0, listener |-> FALSE, t |-> 0, fetches |-> << >>,
   last |-> [i |-> 0]]

\* the packages screen showing the list it has loaded
ScreenLoaded ==
  [packages |-> << 1, 2 >>, server |-> {1, 2}, error |-> "none",
   loadingAdd |-> FALSE, sent |-> 0, ops |-> << >>,
   newPackage |-> [name |-> << "S" >>, price |-> << "8", "5", "0", "0" >>],
   location |-> "packages"]

\* the other components at rest: the server listens (app.listen), nothing
\* is being served
RestIdle ==
  /\ listening = TRUE
  /\ inflight = 0
  /\ exitInflight = -1
  /\ req = NoReq
  /\ dash = DashIdle
  /\ rq = NoRq
  /\ pkgCall = NoPkgCall
  /\ layout = LayoutUnmounted
  /\ screen = ScreenLoaded

Init ==
  /\ RestIdle
  /\ now = BootTime
  /\ proc = "connecting"
  /\ exitCode = -1
  /\ armedAt = BootTime
  /\ timers = {}
  /\ sweeps = << >>
  /\ lastDelete = NoDelete
  /\ customers \in StoredCustomers
  /\ quotes = StoredQuotes
  /\ messages = StoredMessages
  /\ admins = StoredAdmins
  /\ errorLog = 0
  /\ infoLog = 0
  /\ escaped = FALSE
  /\ ticks = 0
  /\ lastCall = NoCall

--------------------------------------------------------------------------
(* Status lifecycle engine *)

\* transitionQuote without the terminal-state check
transitionQuoteFromAnywhere(q, target, t) ==
  IF target \notin QuoteStatuses
    THEN [err |-> "InvalidTransition", rec |-> q]
  ELSE IF target = q.status
    THEN [err |-> "ok", rec |-> q]
  ELSE [err |-> "ok",
        rec |-> [q EXCEPT !.status = target, !.updatedAt = t]]

\* transitionQuote that leaves the updated-at timestamp alone
transitionQuoteNoStamp(q, target, t) ==
  IF target \notin QuoteStatuses
    THEN [err |-> "InvalidTransition", rec |-> q]
  ELSE IF target = q.status
    THEN [err |-> "ok", rec |-> q]
  ELSE IF q.status \in TerminalQuoteStatuses
    THEN [err |-> "InvalidTransition", rec |-> q]
  ELSE [err |-> "ok", rec |-> [q EXCEPT !.status = target]]

\* transitionQuote that checks for a terminal source before anything else
transitionQuoteTerminalFirst(q, target, t) ==
  IF q.status \in TerminalQuoteStatuses \/ target \notin QuoteStatuses
    THEN [err |-> "InvalidTransition", rec |-> q]
  ELSE IF target = q.status
    THEN [err |-> "ok", rec |-> q]
  ELSE [err |-> "ok",
        rec |-> [q EXCEPT !.status = target, !.updatedAt = t]]

\* transitionQuote that stamps the record before it validates the transition
transitionQuoteStampFirst(q, target, t) ==
  IF target \notin QuoteStatuses
    THEN [err |-> "InvalidTransition", rec |-> [q EXCEPT !.updatedAt = t]]
  ELSE IF target = q.status
    THEN [err |-> "ok", rec |-> q]
  ELSE IF q.status \in TerminalQuoteStatuses
    THEN [err |-> "InvalidTransition", rec |-> [q EXCEPT !.updatedAt = t]]
  ELSE [err |-> "ok",
        rec |-> [q EXCEPT !.status = target, !.updatedAt = t]]

\* transitionQuote(quote, targetStatus): the updated record or a typed error
transitionQuote(q, target, t) ==
  IF target \notin QuoteStatuses
    THEN [err |-> "InvalidTransition", rec |-> q]
  ELSE IF target = q.status
    THEN [err |-> "ok", rec |-> q]
  ELSE IF q.status \in TerminalQuoteStatuses
    THEN [err |-> "InvalidTransition", rec |-> q]
  ELSE [err |-> "ok",
        rec |-> [q EXCEPT !.status = target, !.updatedAt = t]]

\* a customer has an approved quote
HasApprovedQuote(c) ==
  \E i \in DOMAIN quotes : quotes[i].customer = c /\ quotes[i].status = "approved"

\* transitionCustomer that confirms without looking at the quote
transitionCustomerAnyQuote(c, rec, target) ==
  IF target \notin CustomerStatuses
    THEN [err |-> "InvalidTransition", rec |-> rec]
  ELSE IF target = rec.status
    THEN [err |-> "ok", rec |-> rec]
  ELSE IF rec.status # "quotation"
    THEN [err |-> "InvalidTransition", rec |-> rec]
  ELSE [err |-> "ok", rec |-> [rec EXCEPT !.status = target]]

\* transitionCustomer(customer, targetStatus)
transitionCustomer(c, rec, target) ==
  IF target \notin CustomerStatuses
    THEN [err |-> "InvalidTransition", rec |-> rec]
  ELSE IF target = rec.status
    THEN [err |-> "ok", rec |-> rec]
  ELSE IF rec.status # "quotation"
    THEN [err |-> "InvalidTransition", rec |-> rec]
  ELSE IF target = "confirmed" /\ ~HasApprovedQuote(c)
    THEN [err |-> "InvalidTransition", rec |-> rec]
  ELSE [err |-> "ok", rec |-> [rec EXCEPT !.status = target]]

\* quote submission: a pending quote, and a provisional customer when new
CreateQuote(c) ==
  /\ proc # "exited"
  /\ Len(quotes) < MaxQuotes
  /\ quotes' = Append(quotes, [status |-> "pending", customer |-> c,
                               createdAt |-> now, updatedAt |-> now])
  /\ customers' = IF c \in DOMAIN customers THEN customers
                  ELSE customers @@ (c :> [status |-> "quotation", createdAt |-> now])
  /\ UNCHANGED <<now, procVars, sweepVars, otherCollections, ticks, lastCall, restVars>>

TransitionQuote(i, target) ==
  /\ proc # "exited"
  /\ i \in DOMAIN quotes
  /\ LET r == transitionQuote(quotes[i], target, now) IN
       /\ quotes' = [quotes EXCEPT ![i] = r.rec]
       /\ lastCall' = [op |-> "transitionQuote", id |-> i, target |-> target,
                       from |-> quotes[i].status, err |-> r.err]
  /\ UNCHANGED <<now, procVars, sweepVars, customers, otherCollections, ticks, restVars>>

TransitionCustomer(c, target) ==
  /\ proc # "exited"
  /\ c \in DOMAIN customers
  /\ LET r == transitionCustomer(c, customers[c], target) IN
       /\ customers' = [customers EXCEPT ![c] = r.rec]
       /\ lastCall' = [op |-> "transitionCustomer", id |-> c, target |-> target,
                       from |-> customers[c].status, err |-> r.err]
  /\ UNCHANGED <<now, procVars, sweepVars, quotes, otherCollections, ticks, restVars>>

\* a millisecond passes between two requests, no timer becoming due
ClockTick ==
  /\ proc # "exited"
  /\ ticks < MaxClockTicks
  /\ \A t \in timers : TLt(TAdd(now, Ms(1)), t.due)
  /\ now' = TAdd(now, Ms(1))
  /\ ticks' = ticks + 1
  /\ UNCHANGED <<procVars, sweepVars, customers, quotes, otherCollections,
                 lastCall, restVars>>

--------------------------------------------------------------------------
(* Process start and the scheduled cleanup sweep *)

\* the filter with createdAt $lte cutoff
MatchesFilterLte(rec, cutoff) ==
  rec.status = "quotation" /\ TLe(rec.createdAt, cutoff)

\* the filter without the status condition
MatchesFilterAnyStatus(rec, cutoff) == TLt(rec.createdAt, cutoff)

\* the filter without the createdAt condition
MatchesFilterAnyAge(rec, cutoff) == rec.status = "quotation"

\* the filter of Customer.deleteMany: status 'quotation', createdAt $lt cutoff
MatchesFilter(rec, cutoff) ==
  rec.status = "quotation" /\ TLt(rec.createdAt, cutoff)

\* deleteOne in place of deleteMany: only the first match is removed
deleteOne(coll, cutoff) ==
  LET match == {c \in DOMAIN coll : MatchesFilter(coll[c], cutoff)}
      keep  == {c \in DOMAIN coll : c \notin match \/ \E m \in match : m < c}
  IN  [c \in keep |-> coll[c]]

\* the documents Customer.deleteMany leaves in the collection
deleteMany(coll, cutoff) ==
  LET keep == {c \in DOMAIN coll : ~MatchesFilter(coll[c], cutoff)}
  IN  [c \in keep |-> coll[c]]

\* new Date(Date.now() - THIRTY_DAYS_MS)
Cutoff(t) == TSub(t, THIRTY_DAYS_MS)

\* cleanupOldQuotations up to its await: the cutoff and the pending delete
cleanupOldQuotations(by) ==
  [at |-> now, cutoff |-> Cutoff(now), st |-> "pending", by |-> by]

\* a catch block that logs and rethrows
CatchAndRethrow == TRUE

\* the catch block of cleanupOldQuotations logs the rejection, never rethrows
CatchRethrows == FALSE

\* setTimeout(..., STARTUP_DELAY_MS)
StartupTimer == [kind |-> "startup", due |-> TAdd(now, STARTUP_DELAY_MS)]

\* an interval whose period is counted from initialization
IntervalTimerFromInit ==
  [kind |-> "interval", due |-> TAdd(armedAt, Ms(ONE_DAY_MS))]

\* setInterval(cleanupOldQuotations, ONE_DAY_MS), and its rescheduling
IntervalTimer == [kind |-> "interval", due |-> TAdd(now, Ms(ONE_DAY_MS))]

\* initializeApp: connectDB resolved, the startup timeout is armed
ConnectOk ==
  /\ proc = "connecting"
  /\ proc' = "running"
  /\ armedAt' = now
  /\ timers' = timers \cup {StartupTimer}
  /\ UNCHANGED <<now, exitCode, sweepVars, customers, quotes,
                 otherCollections, ticks, lastCall, restVars>>

\* an initializeApp that arms the startup timeout before awaiting connectDB
ConnectFailTimerArmed ==
  /\ proc = "connecting"
  /\ proc' = "exited"
  /\ exitCode' = 1
  /\ exitInflight' = inflight
  /\ timers' = timers \cup {StartupTimer}
  /\ UNCHANGED <<now, armedAt, sweepVars, customers, quotes,
                 otherCollections, ticks, lastCall, listening, inflight,
                 req, dash, rq, pkgCall, uiVars>>

\* initializeApp: connectDB rejected, process.exit(1)
ConnectFail ==
  /\ proc = "connecting"
  /\ proc' = "exited"
  /\ exitCode' = 1
  /\ exitInflight' = inflight
  /\ UNCHANGED <<now, armedAt, timers, sweepVars, customers, quotes,
                 otherCollections, ticks, lastCall, listening, inflight,
                 req, dash, rq, pkgCall, uiVars>>

\* a startup callback registered with setInterval: it stays armed
StartupFireRepeating ==
  /\ proc = "running"
  /\ \E t \in timers :
       /\ t.kind = "startup"
       /\ TLe(t.due, now)
       /\ sweeps' = Append(sweeps, cleanupOldQuotations("startup"))
       /\ timers' = (timers \ {t}) \cup
                      {[kind |-> "startup", due |-> TAdd(now, STARTUP_DELAY_MS)],
                       IntervalTimer}
  /\ UNCHANGED <<now, proc, exitCode, armedAt, lastDelete, errorLog, infoLog,
                 escaped, customers, quotes, otherCollections, ticks, lastCall, restVars>>

\* a startup callback that runs the sweep once and sets no interval
StartupFireOnce ==
  /\ proc = "running"
  /\ \E t \in timers :
       /\ t.kind = "startup"
       /\ TLe(t.due, now)
       /\ sweeps' = Append(sweeps, cleanupOldQuotations("startup"))
       /\ timers' = timers \ {t}
  /\ UNCHANGED <<now, proc, exitCode, armedAt, lastDelete, errorLog, infoLog,
                 escaped, customers, quotes, otherCollections, ticks, lastCall, restVars>>

\* the startup timeout fires: one sweep starts and the interval is armed
StartupFire ==
  /\ proc = "running"
  /\ \E t \in timers :
       /\ t.kind = "startup"
       /\ TLe(t.due, now)
       /\ sweeps' = Append(sweeps, cleanupOldQuotations("startup"))
       /\ timers' = (timers \ {t}) \cup {IntervalTimer}
  /\ UNCHANGED <<now, proc, exitCode, armedAt, lastDelete, errorLog, infoLog,
                 escaped, customers, quotes, otherCollections, ticks, lastCall, restVars>>

\* the interval fires: one sweep starts and the interval is rescheduled
IntervalFire ==
  /\ proc = "running"
  /\ Len(sweeps) < MaxSweeps
  /\ \E t \in timers :
       /\ t.kind = "interval"
       /\ TLe(t.due, now)
       /\ sweeps' = Append(sweeps, cleanupOldQuotations("interval"))
       /\ timers' = (timers \ {t}) \cup {IntervalTimer}
  /\ UNCHANGED <<now, proc, exitCode, armedAt, lastDelete, errorLog, infoLog,
                 escaped, customers, quotes, otherCollections, ticks, lastCall, restVars>>

\* the store applies the bulk delete of sweep i and the sweep resumes
DeleteManyOk(i) ==
  /\ proc = "running"
  /\ i \in DOMAIN sweeps
  /\ sweeps[i].st = "pending"
  /\ LET after == deleteMany(customers, sweeps[i].cutoff)
         gone  == DOMAIN customers \ DOMAIN after
     IN  /\ customers' = after
         /\ sweeps' = [sweeps EXCEPT ![i].st = "done"]
         /\ lastDelete' = [sweep |-> i, ok |-> TRUE, seen |-> customers,
                           deleted |-> gone]
         /\ infoLog' = IF Cardinality(gone) # 0 THEN infoLog + 1 ELSE infoLog
  /\ UNCHANGED <<now, procVars, errorLog, escaped, quotes, otherCollections,
                 ticks, lastCall, restVars>>

\* a catch block that logs the rejection and issues the delete again
DeleteManyFailRetry(i) ==
  /\ proc = "running"
  /\ i \in DOMAIN sweeps
  /\ sweeps[i].st = "pending"
  /\ lastDelete' = [sweep |-> i, ok |-> FALSE, seen |-> customers,
                    deleted |-> {}]
  /\ errorLog' = errorLog + 1
  /\ UNCHANGED <<now, procVars, sweeps, escaped, infoLog, customers, quotes,
                 otherCollections, ticks, lastCall, restVars>>

\* the store rejects the bulk delete of sweep i; the catch block logs it
DeleteManyFail(i) ==
  /\ proc = "running"
  /\ i \in DOMAIN sweeps
  /\ sweeps[i].st = "pending"
  /\ sweeps' = [sweeps EXCEPT ![i].st = "failed"]
  /\ lastDelete' = [sweep |-> i, ok |-> FALSE, seen |-> customers,
                    deleted |-> {}]
  /\ errorLog' = errorLog + 1
  /\ escaped' = (escaped \/ CatchRethrows)
  /\ UNCHANGED <<now, procVars, infoLog, customers, quotes, otherCollections,
                 ticks, lastCall, restVars>>

--------------------------------------------------------------------------
(* The clock of the timers *)

\* time passes up to the next armed timer
AdvanceToTimer ==
  /\ proc = "running"
  /\ \E t \in timers :
       /\ TLt(now, t.due)
       /\ \A u \in timers : TLe(t.due, u.due)
       /\ now' = t.due
  /\ UNCHANGED <<procVars, sweepVars, customers, quotes, otherCollections,
                 ticks, lastCall, restVars>>

\* a due timer is served late: the event loop was busy for another millisecond
TimerLate ==
  /\ proc = "running"
  /\ \E t \in timers : TLe(t.due, now)
  /\ \A t \in timers : TLe(TAdd(now, Ms(1)), TAdd(t.due, Ms(MaxLateMs)))
  /\ now' = TAdd(now, Ms(1))
  /\ UNCHANGED <<procVars, sweepVars, customers, quotes, otherCollections,
                 ticks, lastCall, restVars>>

--------------------------------------------------------------------------
(* The server process: start, timers, sweeps, and the requests on customers *)

Next ==
  \/ ConnectOk
  \/ ConnectFail
  \/ StartupFire
  \/ IntervalFire
  \/ \E i \in 1 .. MaxSweeps : DeleteManyOk(i)
  \/ \E i \in 1 .. MaxSweeps : DeleteManyFail(i)
  \/ AdvanceToTimer
  \/ TimerLate
  \/ \E c \in CustomerIds, s \in CustomerTargets :
       TransitionCustomer(c, s)

Spec == Init /\ [][Next]_vars

(* The lifecycle engine under the requests served before the first sweep *)

InitLifecycle ==
  /\ RestIdle
  /\ now = BootTime
  /\ proc = "running"
  /\ exitCode = -1
  /\ armedAt = BootTime
  /\ timers = {[kind |-> "startup", due |-> FirstSweepDue]}
  /\ sweeps = << >>
  /\ lastDelete = NoDelete
  /\ customers = [c \in 1 .. NumStoredCustomers |->
                    [status |-> "quotation", createdAt |-> Cutoff(FirstSweepDue)]]
  /\ quotes = StoredQuotes
  /\ messages = StoredMessages
  /\ admins = StoredAdmins
  /\ errorLog = 0
  /\ infoLog = 0
  /\ escaped = FALSE
  /\ ticks = 0
  /\ lastCall = NoCall

NextLifecycle ==
  \/ \E c \in CustomerIds : CreateQuote(c)
  \/ \E i \in 1 .. MaxQuotes, s \in QuoteTargets : TransitionQuote(i, s)
  \/ \E c \in CustomerIds, s \in CustomerTargets : TransitionCustomer(c, s)
  \/ ClockTick

SpecLifecycle == InitLifecycle /\ [][NextLifecycle]_vars

--------------------------------------------------------------------------
(* Graceful shutdown of the HTTP server *)

backendVars == <<now, procVars, sweepVars, customers, quotes, otherCollections,
                 ticks, lastCall>>

FORCE_CLOSE_MS == Ms(5000)

\* an inbound request is accepted by the listening server
RequestArrive ==
  /\ proc # "exited"
  /\ listening
  /\ inflight < MaxInflight
  /\ inflight' = inflight + 1
  /\ UNCHANGED <<backendVars, listening, exitInflight, req, dash, rq, pkgCall, uiVars>>

\* a request being served gets its response
RequestFinish ==
  /\ proc # "exited"
  /\ inflight > 0
  /\ inflight' = inflight - 1
  /\ UNCHANGED <<backendVars, listening, exitInflight, req, dash, rq, pkgCall, uiVars>>

\* a shutdown that relies on server.close alone
SignalNoForceTimer ==
  /\ proc # "exited"
  /\ listening' = FALSE
  /\ UNCHANGED <<now, proc, exitCode, armedAt, timers, sweepVars, customers,
                 quotes, otherCollections, ticks, lastCall, inflight,
                 exitInflight, req, dash, rq, pkgCall, uiVars>>

\* shutdown(signal) on SIGTERM or SIGINT: server.close and the force timer
Signal ==
  /\ proc # "exited"
  /\ listening' = FALSE
  /\ timers' = timers \cup {[kind |-> "force", due |-> TAdd(now, FORCE_CLOSE_MS)]}
  /\ UNCHANGED <<now, proc, exitCode, armedAt, sweepVars, customers, quotes,
                 otherCollections, ticks, lastCall, inflight, exitInflight,
                 req, dash, rq, pkgCall, uiVars>>

\* a close callback that does not wait for the requests being served
ServerClosedAtOnce ==
  /\ proc # "exited"
  /\ ~listening
  /\ proc' = "exited"
  /\ exitCode' = 0
  /\ exitInflight' = inflight
  /\ UNCHANGED <<now, armedAt, timers, sweepVars, customers, quotes,
                 otherCollections, ticks, lastCall, listening, inflight,
                 req, dash, rq, pkgCall, uiVars>>

\* the callback of server.close: every connection has ended, process.exit(0)
ServerClosed ==
  /\ proc # "exited"
  /\ ~listening
  /\ inflight = 0
  /\ proc' = "exited"
  /\ exitCode' = 0
  /\ exitInflight' = inflight
  /\ UNCHANGED <<now, armedAt, timers, sweepVars, customers, quotes,
                 otherCollections, ticks, lastCall, listening, inflight,
                 req, dash, rq, pkgCall, uiVars>>

\* the force timer fires 5 seconds after the signal: process.exit(1)
ForceFire ==
  /\ proc # "exited"
  /\ \E t \in timers : t.kind = "force" /\ TLe(t.due, now)
  /\ proc' = "exited"
  /\ exitCode' = 1
  /\ exitInflight' = inflight
  /\ UNCHANGED <<now, armedAt, timers, sweepVars, customers, quotes,
                 otherCollections, ticks, lastCall, listening, inflight,
                 req, dash, rq, pkgCall, uiVars>>

InitShutdown ==
  /\ RestIdle
  /\ now = BootTime
  /\ proc = "connecting"
  /\ exitCode = -1
  /\ armedAt = BootTime
  /\ timers = {}
  /\ sweeps = << >>
  /\ lastDelete = NoDelete
  /\ customers = [c \in 1 .. NumStoredCustomers |->
                    [status |-> "quotation", createdAt |-> Cutoff(FirstSweepDue)]]
  /\ quotes = StoredQuotes
  /\ messages = StoredMessages
  /\ admins = StoredAdmins
  /\ errorLog = 0
  /\ infoLog = 0
  /\ escaped = FALSE
  /\ ticks = 0
  /\ lastCall = NoCall

NextShutdown ==
  \/ ConnectOk
  \/ ConnectFail
  \/ StartupFire
  \/ IntervalFire
  \/ \E i \in 1 .. MaxSweeps : DeleteManyOk(i)
  \/ \E i \in 1 .. MaxSweeps : DeleteManyFail(i)
  \/ AdvanceToTimer
  \/ TimerLate
  \/ RequestArrive
  \/ RequestFinish
  \/ Signal
  \/ ServerClosed
  \/ ForceFire

SpecShutdown == InitShutdown /\ [][NextShutdown]_vars

--------------------------------------------------------------------------
(* A customer transition as two store operations, racing with the sweep *)

\* the store's single-document update of the status; no upsert
updateStatus(coll, c, target) ==
  IF c \in DOMAIN coll THEN [coll EXCEPT ![c].status = target] ELSE coll

\* the handler loads the customer it is asked to transition
LoadCustomer(c, target) ==
  /\ proc # "exited"
  /\ req = NoReq
  /\ IF c \in DOMAIN customers
       THEN /\ req' = [st |-> "loaded", c |-> c, target |-> target,
                       rec |-> customers[c]]
            /\ UNCHANGED lastCall
       ELSE /\ req' = NoReq
            /\ lastCall' = [op |-> "transitionCustomer", id |-> c,
                            target |-> target, from |-> "none",
                            err |-> "NotFound"]
  /\ UNCHANGED <<now, procVars, sweepVars, customers, quotes, otherCollections,
                 ticks, httpVars, dash, rq, pkgCall, uiVars>>

\* the handler validates the transition on the loaded record and, when the
\* status changes, issues one update that the store answers (ok) or rejects
PersistCustomer(ok) ==
  /\ proc # "exited"
  /\ req.st = "loaded"
  /\ LET r     == transitionCustomer(req.c, req.rec, req.target)
         write == r.err = "ok" /\ r.rec # req.rec
         err   == IF ~write THEN r.err
                  ELSE IF ~ok THEN "StoreUnavailable"
                  ELSE IF req.c \notin DOMAIN customers THEN "NotFound"
                  ELSE "ok"
     IN  /\ (~write) => ok
         /\ customers' = IF write /\ ok
                           THEN updateStatus(customers, req.c, req.target)
                           ELSE customers
         /\ lastCall' = [op |-> "transitionCustomer", id |-> req.c,
                         target |-> req.target, from |-> req.rec.status,
                         err |-> err]
  /\ req' = NoReq
  /\ UNCHANGED <<now, procVars, sweepVars, quotes, otherCollections, ticks,
                 httpVars, dash, rq, pkgCall, uiVars>>

NextRace ==
  \/ ConnectOk
  \/ StartupFire
  \/ IntervalFire
  \/ \E i \in 1 .. MaxSweeps : DeleteManyOk(i)
  \/ \E i \in 1 .. MaxSweeps : DeleteManyFail(i)
  \/ AdvanceToTimer
  \/ TimerLate
  \/ \E c \in CustomerIds, s \in CustomerTargets : LoadCustomer(c, s)
  \/ \E ok \in BOOLEAN : PersistCustomer(ok)

SpecRace == InitShutdown /\ [][NextRace]_vars

--------------------------------------------------------------------------
(* Properties of the status lifecycle engine, under SpecLifecycle *)

\* C1: once a quote is approved or rejected its status never changes again,
\* and every transitionQuote call to a different status fails with
\* InvalidTransition.
C1_TerminalIsFinal ==
  [][\A i \in DOMAIN quotes :
       quotes[i].status \in TerminalQuoteStatuses =>
         /\ quotes'[i].status = quotes[i].status
         /\ \A s \in QuoteTargets :
              (s # quotes[i].status /\ TransitionQuote(i, s)) =>
                 lastCall'.err = "InvalidTransition"]_vars

C1_Witness ==
  /\ lastCall.op = "transitionQuote"
  /\ lastCall.from \in TerminalQuoteStatuses
  /\ lastCall.target \in QuoteStatuses \ {lastCall.from}
  /\ lastCall.err = "InvalidTransition"
  /\ quotes[lastCall.id].status = lastCall.from

\* C2: transitionQuote from pending to approved or rejected succeeds, stores
\* exactly the target and stamps updatedAt with the time of the call; the
\* call that follows it with the other terminal status fails with
\* InvalidTransition.
C2_PendingToTerminal ==
  [][\A i \in DOMAIN quotes : \A s \in TerminalQuoteStatuses :
       TransitionQuote(i, s) =>
         /\ quotes[i].status = "pending" =>
              /\ lastCall'.err = "ok"
              /\ quotes'[i] = [quotes[i] EXCEPT !.status = s, !.updatedAt = now]
         /\ ( /\ lastCall.op = "transitionQuote"
              /\ lastCall.id = i
              /\ lastCall.from = "pending"
              /\ lastCall.target \in TerminalQuoteStatuses \ {s}
              /\ lastCall.err = "ok" ) =>
              /\ lastCall'.err = "InvalidTransition"
              /\ quotes'[i].status = lastCall.target]_vars

\* a quote created in this run, approved at a later time, and then refused
\* the transition to rejected
C2_Witness ==
  /\ lastCall.op = "transitionQuote"
  /\ lastCall.from = "approved"
  /\ lastCall.target = "rejected"
  /\ lastCall.err = "InvalidTransition"
  /\ lastCall.id > Len(StoredQuotes)
  /\ quotes[lastCall.id].status = "approved"
  /\ quotes[lastCall.id].updatedAt = now
  /\ TLt(quotes[lastCall.id].createdAt, quotes[lastCall.id].updatedAt)

\* C3: a transition of a quote or a customer to the status it already has,
\* terminal or not, returns without error and leaves the stores as they were.
C3_SameStatusNoOp ==
  [][/\ \A i \in DOMAIN quotes :
          TransitionQuote(i, quotes[i].status) =>
             lastCall'.err = "ok" /\ quotes' = quotes
     /\ \A c \in DOMAIN customers :
          TransitionCustomer(c, customers[c].status) =>
             lastCall'.err = "ok" /\ customers' = customers]_vars

C3_Witness ==
  /\ lastCall.op = "transitionQuote"
  /\ lastCall.from \in TerminalQuoteStatuses
  /\ lastCall.target = lastCall.from
  /\ lastCall.err = "ok"
  /\ lastCall.id > Len(StoredQuotes)

\* C4: a transition refused with InvalidTransition (terminal source, or a
\* target that is not a status) changes no field of any stored record and
\* hands the error to the caller.
C4_InvalidNoMutation ==
  [][/\ \A i \in DOMAIN quotes : \A s \in QuoteTargets :
          TransitionQuote(i, s) =>
            /\ ( \/ s \notin QuoteStatuses
                 \/ (quotes[i].status \in TerminalQuoteStatuses
                       /\ s # quotes[i].status) ) =>
                 lastCall'.err = "InvalidTransition"
            /\ lastCall'.err = "InvalidTransition" =>
                 /\ quotes' = quotes
                 /\ customers' = customers
                 /\ otherCollections' = otherCollections
     /\ \A c \in DOMAIN customers : \A s \in CustomerTargets :
          TransitionCustomer(c, s) =>
            /\ s \notin CustomerStatuses => lastCall'.err = "InvalidTransition"
            /\ lastCall'.err = "InvalidTransition" =>
                 /\ quotes' = quotes
                 /\ customers' = customers
                 /\ otherCollections' = otherCollections]_vars

\* a pending quote refused a target that is not a status, some time after
\* it was created
C4_Witness ==
  /\ lastCall.op = "transitionQuote"
  /\ lastCall.target = "archived"
  /\ lastCall.from = "pending"
  /\ lastCall.err = "InvalidTransition"
  /\ TLt(quotes[lastCall.id].createdAt, now)
  /\ quotes[lastCall.id].updatedAt = quotes[lastCall.id].createdAt

--------------------------------------------------------------------------
(* Properties of the cleanup sweep, under Spec *)

\* the age of a record created at t when a sweep is invoked at time at
Age(t, at) == TSub(at, t)

\* a "quotation" customer older than 30 days at the time of the sweep
Eligible(rec, at) ==
  rec.status = "quotation" /\ TLt(THIRTY_DAYS_MS, Age(rec.createdAt, at))

\* the store answers the delete of sweep i in this step
DeleteAnswered(i) == sweeps[i].st = "pending" /\ sweeps'[i].st = "done"

\* the store rejects the delete of sweep i in this step
DeleteRejected(i) == sweeps[i].st = "pending" /\ sweeps'[i].st = "failed"

\* C5: when the store answers the delete of a sweep invoked at time at, every
\* customer then stored that is in "quotation" and older than at - 30 days is
\* removed, so none is left in the store.
C5_SweepDeletesAllEligible ==
  [][\A i \in DOMAIN sweeps :
       DeleteAnswered(i) =>
         /\ \A c \in DOMAIN customers :
              Eligible(customers[c], sweeps[i].at) => c \notin DOMAIN customers'
         /\ \A c \in DOMAIN customers' :
              ~Eligible(customers'[c], sweeps[i].at)]_vars

\* one sweep removed two eligible customers at once
C5_Witness ==
  /\ lastDelete.ok
  /\ Cardinality(lastDelete.deleted) >= 2
  /\ \A c \in lastDelete.deleted :
       Eligible(lastDelete.seen[c], sweeps[lastDelete.sweep].at)
  /\ \A c \in DOMAIN customers :
       ~Eligible(customers[c], sweeps[lastDelete.sweep].at)

\* C6: the boundary is 30 days from createdAt, strictly: a "quotation"
\* customer is deleted by a sweep exactly when its age at the sweep exceeds
\* 30 days (30 days + 1 ms and 31 days: deleted; 29 days and exactly 30 days:
\* retained).
C6_RetentionBoundary ==
  [][\A i \in DOMAIN sweeps :
       DeleteAnswered(i) =>
         \A c \in DOMAIN customers :
           customers[c].status = "quotation" =>
             LET age == Age(customers[c].createdAt, sweeps[i].at) IN
               /\ (c \notin DOMAIN customers') <=> TLt(THIRTY_DAYS_MS, age)
               /\ TLe(TAdd(THIRTY_DAYS_MS, Ms(1)), age) => c \notin DOMAIN customers'
               /\ age = TMul(31, Ms(ONE_DAY_MS)) => c \notin DOMAIN customers'
               /\ age = THIRTY_DAYS_MS => c \in DOMAIN customers'
               /\ age = TMul(29, Ms(ONE_DAY_MS)) => c \in DOMAIN customers']_vars

\* one sweep deleted a customer aged 30 days + 1 ms and kept one aged exactly
\* 30 days
C6_Witness ==
  /\ lastDelete.ok
  /\ \E c \in lastDelete.deleted :
       Age(lastDelete.seen[c].createdAt, sweeps[lastDelete.sweep].at)
         = TAdd(THIRTY_DAYS_MS, Ms(1))
  /\ \E c \in DOMAIN lastDelete.seen \ lastDelete.deleted :
       /\ lastDelete.seen[c].status = "quotation"
       /\ Age(lastDelete.seen[c].createdAt, sweeps[lastDelete.sweep].at)
            = THIRTY_DAYS_MS

\* a step of the sweep: a timer starts one, or the store answers or rejects
\* its delete
SweepStep == sweeps' # sweeps

\* C7: a step of the sweep changes no quote, message or admin account, and
\* of the customers it changes none: it only removes customers that are in
\* "quotation" and older than 30 days.
C7_SweepFrame ==
  [][SweepStep =>
       /\ quotes' = quotes
       /\ messages' = messages
       /\ admins' = admins
       /\ DOMAIN customers' \subseteq DOMAIN customers
       /\ \A c \in DOMAIN customers' : customers'[c] = customers[c]
       /\ \A c \in DOMAIN customers \ DOMAIN customers' :
            \E i \in DOMAIN sweeps :
              /\ DeleteAnswered(i)
              /\ customers[c].status = "quotation"
              /\ TLt(THIRTY_DAYS_MS, Age(customers[c].createdAt, sweeps[i].at))]_vars

\* one sweep deleted an old "quotation" customer and kept an equally old
\* customer that had left "quotation"; the quote is still stored
C7_Witness ==
  /\ lastDelete.ok
  /\ lastDelete.deleted # {}
  /\ \E c \in DOMAIN lastDelete.seen \ lastDelete.deleted :
       /\ lastDelete.seen[c].status # "quotation"
       /\ TLt(THIRTY_DAYS_MS,
              Age(lastDelete.seen[c].createdAt, sweeps[lastDelete.sweep].at))
       /\ c \in DOMAIN customers
  /\ quotes = StoredQuotes

\* no stored customer is eligible for the sweep invoked at time at
NoneEligible(at) == \A c \in DOMAIN customers : ~Eligible(customers[c], at)

\* C8: a sweep that finds no eligible customer deletes nothing and raises
\* nothing, whatever the store answers; when the store answers the delete,
\* the whole store is unchanged and no error is logged.
C8_NothingEligibleNoOp ==
  [][\A i \in DOMAIN sweeps :
       NoneEligible(sweeps[i].at) =>
         /\ (DeleteAnswered(i) \/ DeleteRejected(i)) =>
              customers' = customers /\ ~escaped' /\ proc' = proc
         /\ DeleteAnswered(i) =>
              /\ errorLog' = errorLog
              /\ quotes' = quotes
              /\ otherCollections' = otherCollections]_vars

\* a sweep found only "quotation" customers inside the window, deleted none
\* and logged no error
C8_Witness ==
  /\ lastDelete.ok
  /\ lastDelete.deleted = {}
  /\ lastDelete.seen = customers
  /\ \E c \in DOMAIN customers : customers[c].status = "quotation"
  /\ errorLog = 0
  /\ ~escaped

\* C9: when the store rejects the delete of a sweep, the failure is logged,
\* nothing escapes cleanupOldQuotations, the process keeps running, no
\* customer is deleted, and the interval timer stays armed for the next run.
C9_FailedSweepIsSkipped ==
  [][\A i \in DOMAIN sweeps :
       DeleteRejected(i) =>
         /\ errorLog' = errorLog + 1
         /\ ~escaped'
         /\ proc' = "running"
         /\ exitCode' = -1
         /\ customers' = customers
         /\ timers' = timers
         /\ \E t \in timers' : t.kind = "interval"]_vars

\* the first sweep failed and the next scheduled one deleted what it left
C9_Witness ==
  /\ Len(sweeps) >= 2
  /\ sweeps[1].st = "failed"
  /\ sweeps[2].st = "done"
  /\ sweeps[2].by = "interval"
  /\ lastDelete.sweep = 2
  /\ lastDelete.ok
  /\ lastDelete.deleted # {}
  /\ errorLog = 1

\* the time the startup timeout armed by initializeApp is due
StartupDue == TAdd(armedAt, STARTUP_DELAY_MS)

\* C10: no sweep runs before the startup delay has elapsed; the startup
\* timeout runs exactly one sweep, when the delay elapses; every later sweep
\* is run by the interval, one period after the run before it.
C10_SweepSchedule ==
  /\ TLt(now, StartupDue) => Len(sweeps) = 0
  /\ \A k \in DOMAIN sweeps :
       /\ TLe(StartupDue, sweeps[k].at)
       /\ k = 1 =>
            /\ sweeps[k].by = "startup"
            /\ TLe(sweeps[k].at, TAdd(StartupDue, Ms(MaxLateMs)))
       /\ k > 1 =>
            /\ sweeps[k].by = "interval"
            /\ TLe(TAdd(sweeps[k-1].at, Ms(ONE_DAY_MS)), sweeps[k].at)
            /\ TLe(sweeps[k].at,
                   TAdd(sweeps[k-1].at, TAdd(Ms(ONE_DAY_MS), Ms(MaxLateMs))))
  /\ proc = "running" =>
       /\ Cardinality(timers) = 1
       /\ \A t \in timers :
            t.kind = (IF Len(sweeps) = 0 THEN "startup" ELSE "interval")

\* the startup sweep ran 10 s after initialization and the first periodic
\* sweep one day after it
C10_Witness ==
  /\ Len(sweeps) >= 2
  /\ sweeps[1].at = TAdd(armedAt, Ms(10000))
  /\ sweeps[2].at = TAdd(sweeps[1].at, Ms(86400000))

--------------------------------------------------------------------------
(* Properties of the customer lifecycle and of shutdown *)

\* C11: a customer's status changes only by a transitionCustomer call, out
\* of "quotation": to confirmed when the customer has an approved quote, or
\* to cancelled; without an approved quote the customer stays in
\* "quotation" until it is cancelled or the sweep deletes it.
C11_CustomerLifecycle ==
  [][\A c \in DOMAIN customers :
       /\ (c \in DOMAIN customers' /\ customers'[c].status # customers[c].status) =>
            /\ customers[c].status = "quotation"
            /\ \E s \in CustomerTargets : TransitionCustomer(c, s)
            /\ \/ customers'[c].status = "confirmed" /\ HasApprovedQuote(c)
               \/ customers'[c].status = "cancelled"
       /\ c \notin DOMAIN customers' =>
            /\ customers[c].status = "quotation"
            /\ \E i \in DOMAIN sweeps : DeleteAnswered(i)
       /\ ( /\ TransitionCustomer(c, "confirmed")
            /\ customers[c].status = "quotation"
            /\ HasApprovedQuote(c) ) => customers'[c].status = "confirmed"]_vars

\* the customer with the approved quote is confirmed, and another one was
\* refused the confirmation and is still in "quotation"
C11_Witness ==
  /\ lastCall.op = "transitionCustomer"
  /\ lastCall.from = "quotation"
  /\ lastCall.target = "confirmed"
  /\ lastCall.err = "InvalidTransition"
  /\ lastCall.id \in DOMAIN customers
  /\ customers[lastCall.id].status = "quotation"
  /\ \E c \in DOMAIN customers :
       customers[c].status = "confirmed" /\ HasApprovedQuote(c)

\* C12 as stated: the server process exits only once no request is in flight.
C12_ExitWaitsForRequests ==
  [][(proc = "running" /\ proc' = "exited") => inflight = 0]_vars

\* C12 as amended: after the signal no request is accepted; the process exits
\* with code 0 only when no request is in flight, and with code 1 only when
\* the force timer, armed 5 seconds after a signal, is due.
C12_ShutdownWaitsUpToFiveSeconds ==
  [][/\ ~listening => (~listening' /\ inflight' <= inflight)
     /\ (proc = "running" /\ proc' = "exited") =>
          /\ ~listening
          /\ exitInflight' = inflight
          /\ exitCode' = 0 => inflight = 0
          /\ exitCode' # 0 =>
               /\ exitCode' = 1
               /\ \E t \in timers : t.kind = "force" /\ TLe(t.due, now)]_vars

\* the force timer ended the process while a request was still being served
C12_Witness ==
  /\ proc = "exited"
  /\ exitCode = 1
  /\ ~listening
  /\ exitInflight >= 1
  /\ \E t \in timers : t.kind = "force" /\ TLe(t.due, now)

\* C20: the recurring sweep is stopped at teardown: once shutdown has begun
\* (a SIGTERM or SIGINT was received) no further sweep invocation starts.
C20_NoSweepAfterShutdown ==
  [][~listening => Len(sweeps') = Len(sweeps)]_vars

\* the armed timers that start a sweep when they fire
SweepTimers(ts) == {t \in ts : t.kind \in {"startup", "interval"}}

\* C13: at most one sweep timer is armed at any time; the startup timeout is
\* armed only by initialization, the interval only by the startup callback,
\* and afterwards the one interval is only rescheduled one period ahead, each
\* time it starts a sweep.
C13_SingleSweepTimer ==
  [][/\ Cardinality(SweepTimers(timers')) <= 1
     /\ SweepTimers(timers') # SweepTimers(timers) =>
          \/ /\ proc = "connecting" /\ proc' = "running"
             /\ SweepTimers(timers) = {}
             /\ SweepTimers(timers') =
                  {[kind |-> "startup", due |-> TAdd(now, Ms(10000))]}
          \/ /\ Len(sweeps') = Len(sweeps) + 1
             /\ Cardinality(SweepTimers(timers)) = 1
             /\ SweepTimers(timers') =
                  {[kind |-> "interval", due |-> TAdd(now, Ms(86400000))]}
     /\ Len(sweeps') # Len(sweeps) =>
          /\ Len(sweeps') = Len(sweeps) + 1
          /\ \E t \in SweepTimers(timers) : TLe(t.due, now)
          /\ \A k \in DOMAIN sweeps :
               TLe(TAdd(sweeps[k].at, Ms(86400000)), now)]_vars

\* two sweeps have run, a shutdown is under way, and exactly one interval
\* timer is armed
C13_Witness ==
  /\ Len(sweeps) >= 2
  /\ ~listening
  /\ \E t \in timers : t.kind = "force"
  /\ Cardinality(SweepTimers(timers)) = 1
  /\ \A t \in SweepTimers(timers) : t.kind = "interval"

--------------------------------------------------------------------------
(* Properties of the race between the sweep and a transition, under SpecRace *)

\* the handler of the transition request finishes in this step
PersistStep == req.st = "loaded" /\ req' = NoReq

\* C14: the sweep's delete and the transition's update interleave freely and
\* each acts at once on the stored documents: the delete removes or keeps
\* each customer whole, judging the status it has then; the update never
\* recreates a deleted customer; after a successful transition the customer
\* is stored with the target status, unless the sweep deleted it.
C14_SweepTransitionRace ==
  [][/\ PersistStep =>
          /\ req.c \notin DOMAIN customers =>
               /\ customers' = customers
               /\ req.target # req.rec.status => lastCall'.err # "ok"
          /\ (lastCall'.err = "ok" /\ req.target # req.rec.status) =>
               /\ req.c \in DOMAIN customers'
               /\ customers'[req.c].status = req.target
          /\ DOMAIN customers' = DOMAIN customers
          /\ \A c \in DOMAIN customers \ {req.c} : customers'[c] = customers[c]
     /\ \A i \in DOMAIN sweeps :
          DeleteAnswered(i) =>
            /\ req' = req
            /\ DOMAIN customers' \subseteq DOMAIN customers
            /\ \A c \in DOMAIN customers' : customers'[c] = customers[c]
            /\ \A c \in DOMAIN customers \ DOMAIN customers' :
                 customers[c].status = "quotation"
     /\ ( /\ lastCall'.op = "transitionCustomer"
          /\ lastCall'.err = "ok"
          /\ lastCall'.target # "quotation" ) =>
            /\ lastCall'.id \in DOMAIN customers'
            /\ customers'[lastCall'.id].status = lastCall'.target
     /\ ( /\ lastCall'.op = "transitionCustomer"
          /\ lastCall'.err = "NotFound" ) =>
            lastCall'.id \notin DOMAIN customers']_vars

\* the sweep deleted the customer between the load and the update of a
\* transition to cancelled; the update found nothing and the customer stays
\* deleted
C14_Witness ==
  /\ lastCall.op = "transitionCustomer"
  /\ lastCall.from = "quotation"
  /\ lastCall.target = "cancelled"
  /\ lastCall.err = "NotFound"
  /\ lastDelete.ok
  /\ lastCall.id \in lastDelete.deleted
  /\ lastCall.id \notin DOMAIN customers
  /\ \E c \in DOMAIN customers : customers[c].status = "cancelled"

\* C16: an invocation gets one answer from the store and is then finished:
\* a sweep whose delete was answered or rejected never issues it again (new
\* deletes come only from a timer starting a new sweep), and a transition
\* request ends with the answer to its one update.
C16_NoRetryWithinCall ==
  [][/\ \A i \in DOMAIN sweeps :
          /\ sweeps[i].st # "pending" => sweeps'[i] = sweeps[i]
          /\ sweeps'[i].st = "pending" => sweeps'[i] = sweeps[i]
     /\ lastDelete' # lastDelete =>
          /\ lastDelete'.sweep \in DOMAIN sweeps
          /\ sweeps[lastDelete'.sweep].st = "pending"
          /\ sweeps'[lastDelete'.sweep].st =
               (IF lastDelete'.ok THEN "done" ELSE "failed")
     /\ errorLog' # errorLog =>
          \E i \in DOMAIN sweeps : DeleteRejected(i)
     /\ Len(sweeps') # Len(sweeps) =>
          /\ Len(sweeps') = Len(sweeps) + 1
          /\ \E t \in timers : t \notin timers'
     /\ (req.st = "loaded" /\ (customers' # customers \/ lastCall' # lastCall)) =>
          \/ \E i \in DOMAIN sweeps : DeleteAnswered(i)
          \/ req' = NoReq
     /\ (PersistStep /\ lastCall'.err = "StoreUnavailable") =>
          customers' = customers]_vars

\* the first sweep's delete was rejected once and nothing was deleted until
\* the next timer tick started the second sweep; a transition's update was
\* rejected and the customer kept its status
C16_Witness ==
  /\ Len(sweeps) = 2
  /\ sweeps[1].st = "failed"
  /\ sweeps[2].st = "pending"
  /\ sweeps[2].by = "interval"
  /\ lastDelete.sweep = 1
  /\ ~lastDelete.ok
  /\ errorLog = 1
  /\ req = NoReq
  /\ lastCall.op = "transitionCustomer"
  /\ lastCall.err = "StoreUnavailable"
  /\ lastCall.id \in DOMAIN customers
  /\ customers[lastCall.id].status = lastCall.from
  /\ lastCall.from # lastCall.target

--------------------------------------------------------------------------
(* The messages collection: the Message schema and the operations on it *)

MaxMessages == 3

\* the enum of the source path
SourceEnum == {"contact", "quote", "other"}

\* what a submission may carry as source: nothing, a tag of the enum, or
\* another string
SourceInputs == {"absent"} \cup SourceEnum \cup {"sms"}

\* a submitted document: whether the required paths (name, email, subject,
\* message) are all there, and the source
MessageInputs == [complete : BOOLEAN, source : SourceInputs]

\* the defaults of the schema fill the paths the document leaves out
applyDefaults(doc) ==
  [isRead |-> FALSE,
   source |-> IF doc.source = "absent" THEN "contact" ELSE doc.source]

ValidSourceAny(v) == v \in STRING

\* the enum validator of the source path
ValidSource(v) == v \in SourceEnum

\* validation at save: the required paths and the enum
validateMessage(doc, m) == doc.complete /\ ValidSource(m.source)

NextMessageId ==
  IF messages = {} THEN 1
  ELSE 1 + CHOOSE n \in { m.id : m \in messages } :
             \A m \in messages : m.id <= n

\* Message.create(doc): defaults, validation, insert
CreateMessage(doc) ==
  LET m == applyDefaults(doc)
      ok == validateMessage(doc, m)
  IN
  /\ proc = "running"
  /\ Cardinality(messages) < MaxMessages
  /\ messages' =
       IF ok
       THEN messages \cup
              {[id |-> NextMessageId, isRead |-> m.isRead, source |-> m.source]}
       ELSE messages
  /\ lastCall' = [op |-> "createMessage",
                  id |-> IF ok THEN NextMessageId ELSE 0,
                  target |-> doc.source, from |-> "none",
                  err |-> IF ok THEN "ok" ELSE "ValidationError"]
  /\ UNCHANGED <<now, procVars, sweepVars, customers, quotes, admins, ticks,
                 restVars>>

\* the read flag of message id is set or cleared
MarkRead(id, flag) ==
  /\ proc = "running"
  /\ messages' =
       { IF m.id = id THEN [m EXCEPT !.isRead = flag] ELSE m : m \in messages }
  /\ lastCall' = [op |-> "markRead", id |-> id,
                  target |-> IF flag THEN "read" ELSE "unread",
                  from |-> "none",
                  err |-> IF \E m \in messages : m.id = id
                          THEN "ok" ELSE "NotFound"]
  /\ UNCHANGED <<now, procVars, sweepVars, customers, quotes, admins, ticks,
                 restVars>>

NextMessages ==
  \/ \E doc \in MessageInputs : CreateMessage(doc)
  \/ \E id \in 1 .. MaxMessages, flag \in BOOLEAN : MarkRead(id, flag)

SpecMessages == InitLifecycle /\ [][NextMessages]_vars

--------------------------------------------------------------------------
(* GET /api/admin/dashboard/stats: the handler getDashboardStats *)

\* the queries of the first Promise.all
FirstBatch == {"totalQuotes", "totalCustomers", "unreadMessages",
               "recentQuotes", "recentCustomers", "recentMessages"}

\* the queries of the second Promise.all
SecondBatch == {"pendingQuotes", "completedQuotes"}

DashQueries == FirstBatch \cup SecondBatch

\* res.json({stats, recent})
StatsResponse ==
  [status |-> 200, message |-> FALSE, stats |-> TRUE, recent |-> TRUE]

\* res.status(500).json({message})
ErrorResponse ==
  [status |-> 500, message |-> TRUE, stats |-> FALSE, recent |-> FALSE]

\* the batch the handler awaits at its position
Awaited ==
  IF dash.pc = "batch1" THEN FirstBatch
  ELSE IF dash.pc = "batch2" THEN SecondBatch
  ELSE {}

AllSettled(S) == \A k \in S : dash.q[k] \in {"ok", "fail"}

\* Promise.all fulfils when every promise of the batch has fulfilled
AllFulfilled(S) == \A k \in S : dash.q[k] = "ok"

\* Promise.all rejects as soon as one promise of the batch has rejected
SomeRejected(S) == \E k \in S : dash.q[k] = "fail"

RECENT_LIMIT == 5

\* find().sort({createdAt: 1}).limit(n): oldest first
RECURSIVE oldestFirst(_, _, _)
oldestFirst(coll, ids, n) ==
  IF n = 0 \/ ids = {} THEN << >>
  ELSE LET top == CHOOSE i \in ids :
                    \A j \in ids :
                      \/ TLt(coll[i].createdAt, coll[j].createdAt)
                      \/ (coll[j].createdAt = coll[i].createdAt /\ i <= j)
       IN  << [id |-> top, createdAt |-> coll[top].createdAt] >>
             \o oldestFirst(coll, ids \ {top}, n - 1)

\* find().sort({createdAt: -1}).limit(n) over the documents ids of coll
RECURSIVE newestFirst(_, _, _)
newestFirst(coll, ids, n) ==
  IF n = 0 \/ ids = {} THEN << >>
  ELSE LET top == CHOOSE i \in ids :
                    \A j \in ids :
                      \/ TLt(coll[j].createdAt, coll[i].createdAt)
                      \/ (coll[j].createdAt = coll[i].createdAt /\ j <= i)
       IN  << [id |-> top, createdAt |-> coll[top].createdAt] >>
             \o newestFirst(coll, ids \ {top}, n - 1)

\* countDocuments({status})
countStatus(st) == Cardinality({ i \in DOMAIN quotes : quotes[i].status = st })

\* what query k reads from the store at the moment the store answers it; the
\* contact messages collection is not modelled, its two reads carry no value
readQuery(k) ==
  CASE k = "totalQuotes" -> Len(quotes)
    [] k = "totalCustomers" -> Cardinality(DOMAIN customers)
    [] k = "pendingQuotes" -> countStatus("pending")
    [] k = "completedQuotes" -> countStatus("completed")
    [] k = "recentQuotes" -> newestFirst(quotes, DOMAIN quotes, RECENT_LIMIT)
    [] k = "recentCustomers" ->
         newestFirst(customers, DOMAIN customers, RECENT_LIMIT)
    [] k = "unreadMessages" -> 0
    [] OTHER -> << >>

\* the value of a query that has not been answered
NoValue(k) ==
  IF k \in {"recentQuotes", "recentCustomers", "recentMessages"}
  THEN << >> ELSE -1

\* the request reaches the handler, which issues the six queries of the
\* first batch and awaits them
DashRequest ==
  /\ proc = "running"
  /\ dash.pc = "idle"
  /\ dash' = [pc |-> "batch1",
              q |-> [k \in DashQueries |->
                       IF k \in FirstBatch THEN "pending" ELSE "notstarted"],
              val |-> [k \in DashQueries |-> NoValue(k)],
              responses |-> << >>]
  /\ UNCHANGED <<backendVars, httpVars, req, rq, pkgCall, uiVars>>

\* the store answers or rejects one query that is under way, whether or
\* not the handler still awaits it
QuerySettle(k, ok) ==
  /\ dash.pc # "idle"
  /\ dash.q[k] = "pending"
  /\ dash' = [dash EXCEPT !.q[k] = IF ok THEN "ok" ELSE "fail",
                          !.val[k] = IF ok THEN readQuery(k) ELSE @]
  /\ UNCHANGED <<backendVars, httpVars, req, rq, pkgCall, uiVars>>

\* the first batch fulfilled: the handler issues the two queries of the
\* second batch and awaits them
DashSecondBatch ==
  /\ dash.pc = "batch1"
  /\ AllFulfilled(FirstBatch)
  /\ dash' = [dash EXCEPT !.pc = "batch2",
                          !.q = [k \in DashQueries |->
                                   IF k \in SecondBatch THEN "pending"
                                   ELSE dash.q[k]]]
  /\ UNCHANGED <<backendVars, httpVars, req, rq, pkgCall, uiVars>>

\* the second batch fulfilled: the handler sends the stats
DashRespond ==
  /\ dash.pc = "batch2"
  /\ AllFulfilled(SecondBatch)
  /\ dash' = [dash EXCEPT !.pc = "done",
                          !.responses = Append(@, StatsResponse)]
  /\ UNCHANGED <<backendVars, httpVars, req, rq, pkgCall, uiVars>>

\* the awaited batch rejected: the catch block logs and sends the 500
DashCatch ==
  /\ SomeRejected(Awaited)
  /\ dash' = [dash EXCEPT !.pc = "done",
                          !.responses = Append(@, ErrorResponse)]
  /\ UNCHANGED <<backendVars, httpVars, req, rq, pkgCall, uiVars>>

NextDashboard ==
  \/ DashRequest
  \/ \E k \in DashQueries, ok \in BOOLEAN : QuerySettle(k, ok)
  \/ DashSecondBatch
  \/ DashRespond
  \/ DashCatch

SpecDashboard == InitLifecycle /\ [][NextDashboard]_vars

\* C17: a request for the dashboard stats gets exactly one response; when
\* one of its eight queries failed, that response is the 500 with a message
\* and without stats or recent lists, and the stats are sent only when all
\* eight queries succeeded.
C17_DashboardFailureIs500 ==
  dash.pc # "idle" =>
    /\ Len(dash.responses) <= 1
    /\ dash.pc = "done" <=> Len(dash.responses) = 1
    /\ dash.pc = "done" =>
         LET r == dash.responses[1] IN
         /\ (\E k \in DashQueries : dash.q[k] = "fail") =>
              /\ r.status = 500
              /\ r.message
              /\ ~r.stats
              /\ ~r.recent
         /\ r.status = 200 =>
              /\ \A k \in DashQueries : dash.q[k] = "ok"
              /\ r.stats /\ r.recent
         /\ r.status \in {200, 500}
    /\ dash.pc = "batch2" => \A k \in FirstBatch : dash.q[k] = "ok"
    /\ dash.pc = "batch1" => \A k \in SecondBatch : dash.q[k] = "notstarted"

\* the first batch succeeded, one query of the second batch failed and the
\* other succeeded afterwards: one 500 was sent
C17_Witness ==
  /\ dash.pc = "done"
  /\ \A k \in FirstBatch : dash.q[k] = "ok"
  /\ dash.q["pendingQuotes"] = "fail"
  /\ dash.q["completedQuotes"] = "ok"
  /\ dash.responses = << ErrorResponse >>

--------------------------------------------------------------------------
(* The routers: which middleware a request passes before its handler *)

\* routes of the packages router that read
PackageReads == {"getAllPackages", "getFeaturedPackages", "getPackageById"}

\* routes of the packages router that change a package
PackageMutations == {"createPackage", "updatePackage", "deletePackage",
                     "toggleActiveStatus", "togglePopularStatus"}

\* routes of the admin router
AdminRoutes == {"registerAdmin", "loginAdmin", "getAdminProfile",
                "logoutAdmin", "getDashboardStats"}

Handlers == PackageReads \cup PackageMutations \cup AdminRoutes

\* the middleware each route lists before its handler, in order
Chain(h) ==
  IF h \in PackageReads THEN << >>
  ELSE IF h \in PackageMutations THEN << "protect" >>
  ELSE IF h \in {"registerAdmin", "loginAdmin"} THEN << >>
  ELSE IF h \in {"getAdminProfile", "logoutAdmin"} THEN << "protect" >>
  ELSE << "protect", "admin" >>

\* what a request presents: no token, a token that does not verify, the
\* token of an account that is not an administrator, an administrator's
Credentials == {"none", "invalid", "user", "admin"}

\* protect lets a request with a verified token through
protect(cred) == cred \in {"user", "admin"}

\* admin lets an authenticated administrator through
admin(cred) == cred = "admin"

Passes(mw, cred) == IF mw = "protect" THEN protect(cred) ELSE admin(cred)

\* a request is routed to the chain of its route
RouteRequest(h, cred) ==
  /\ proc = "running"
  /\ rq.st \in {"none", "handler", "rejected"}
  /\ rq' = [st |-> "chain", h |-> h, cred |-> cred, passed |-> << >>]
  /\ UNCHANGED <<backendVars, httpVars, req, dash, pkgCall, uiVars>>

\* the next middleware of the chain runs: it calls next() or answers with
\* an error
MiddlewareStep ==
  /\ rq.st = "chain"
  /\ Len(rq.passed) < Len(Chain(rq.h))
  /\ LET mw == Chain(rq.h)[Len(rq.passed) + 1] IN
     rq' = IF Passes(mw, rq.cred)
           THEN [rq EXCEPT !.passed = Append(@, mw)]
           ELSE [rq EXCEPT !.st = "rejected"]
  /\ UNCHANGED <<backendVars, httpVars, req, dash, pkgCall, uiVars>>

\* the chain is through: the handler of the route runs
ReachHandler ==
  /\ rq.st = "chain"
  /\ rq.passed = Chain(rq.h)
  /\ rq' = [rq EXCEPT !.st = "handler"]
  /\ UNCHANGED <<backendVars, httpVars, req, dash, pkgCall, uiVars>>

NextRoutes ==
  \/ \E h \in Handlers, cred \in Credentials : RouteRequest(h, cred)
  \/ MiddlewareStep
  \/ ReachHandler

SpecRoutes == InitLifecycle /\ [][NextRoutes]_vars

\* C18: the handler of a package mutation runs only for a request of an
\* authenticated administrator, and the dashboard stats handler runs only
\* after protect and then admin let the request through.
C18_MutationsAdminOnly ==
  rq.st = "handler" =>
    /\ rq.h \in PackageMutations =>
         /\ rq.cred \notin {"none", "invalid"}
         /\ rq.cred = "admin"
    /\ rq.h = "getDashboardStats" =>
         /\ rq.passed = << "protect", "admin" >>
         /\ rq.cred = "admin"

--------------------------------------------------------------------------
(* packageService.getAllPackages: the normalisation of the API's response *)

MaxItems == 2
NestDepth == 2

Null == [t |-> "null"]

Undefined == [t |-> "undefined"]

Str(x) == [t |-> "string", s |-> x]

\* an array, told from the others by its number of items
Arr(n) == [t |-> "array", n |-> n]

Obj(d, p) == [t |-> "object", data |-> d, packages |-> p]

\* values without properties of their own
Leaves ==
  {Null, Undefined, Str(""), Str("x")} \cup { Arr(n) : n \in 0 .. MaxItems }

\* the values nested up to depth d under the property data
RECURSIVE ValuesTo(_)
ValuesTo(d) ==
  IF d = 0 THEN Leaves
  ELSE Leaves \cup { Obj(x, y) : x \in ValuesTo(d - 1), y \in Leaves }

\* what publicAPI.getPackages may resolve to
Responses == ValuesTo(NestDepth)

\* what publicAPI.getPackages may reject with: nothing, an error without
\* response, an error whose response carries a message or none
Rejections ==
  {Undefined} \cup
  [t : {"error"}, hasResponse : BOOLEAN, message : {"", "Package API down"}]

\* the outcomes of the request
Outcomes ==
  { [ok |-> TRUE, value |-> v] : v \in Responses } \cup
  { [ok |-> FALSE, value |-> e] : e \in Rejections }

IsArray(v) == v.t = "array"

\* the truthiness of a value
Truthy(v) ==
  CASE v.t \in {"null", "undefined"} -> FALSE
    [] v.t = "string" -> v.s # ""
    [] OTHER -> TRUE

\* v[f] for f in data, packages, of a value that is not null or undefined
Get(v, f) ==
  IF v.t = "object" THEN (IF f = "data" THEN v.data ELSE v.packages)
  ELSE Undefined

fallbackEcho(response) == response

\* 5) Fallback
fallback(response) == Arr(0)

\* the try block after the await
normalize(response) ==
  IF IsArray(response) THEN response
  ELSE IF Truthy(response) /\ IsArray(Get(response, "data"))
    THEN Get(response, "data")
  ELSE IF /\ Truthy(response)
          /\ Truthy(Get(response, "data"))
          /\ IsArray(Get(Get(response, "data"), "data"))
    THEN Get(Get(response, "data"), "data")
  ELSE IF Truthy(response) /\ IsArray(Get(response, "packages"))
    THEN Get(response, "packages")
  ELSE fallback(response)

\* the catch block: error.response?.data?.message || 'Failed to fetch packages'
rethrow(error) ==
  IF error.t = "undefined"
  THEN [t |-> "Error", name |-> "TypeError", message |-> "Cannot read properties"]
  ELSE [t |-> "Error", name |-> "Error",
        message |-> IF error.hasResponse /\ error.message # ""
                    THEN error.message ELSE "Failed to fetch packages"]

getAllPackages(outcome) ==
  IF outcome.ok
  THEN [kind |-> "returned", value |-> normalize(outcome.value)]
  ELSE [kind |-> "threw", value |-> rethrow(outcome.value)]

\* a screen calls packageService.getAllPackages: the request is sent
CallGetAllPackages ==
  /\ IF pkgCall.op = "none" THEN TRUE ELSE pkgCall.st = "done"
  /\ pkgCall' = [op |-> "getAllPackages", st |-> "pending"]
  /\ UNCHANGED <<backendVars, httpVars, req, dash, rq, uiVars>>

\* the request settles and the call finishes
PackagesSettle(outcome) ==
  /\ pkgCall.op = "getAllPackages"
  /\ pkgCall.st = "pending"
  /\ pkgCall' = [op |-> "getAllPackages", st |-> "done",
                 outcome |-> outcome, result |-> getAllPackages(outcome)]
  /\ UNCHANGED <<backendVars, httpVars, req, dash, rq, uiVars>>

NextPackages ==
  \/ CallGetAllPackages
  \/ \E outcome \in Outcomes : PackagesSettle(outcome)

SpecPackages == InitLifecycle /\ [][NextPackages]_vars

\* the call of getAllPackages has finished
PkgDone == pkgCall.op = "getAllPackages" /\ pkgCall.st = "done"

\* C19: whatever the request resolves to, getAllPackages returns an array:
\* the response itself, its data, its data.data or its packages when that
\* is an array (in this order), the empty array otherwise; when the request
\* fails it throws an Error; it never returns a value that is not an array.
C19_GetAllPackagesReturnsArray ==
  PkgDone =>
    LET o == pkgCall.outcome
        r == pkgCall.result
        v == o.value
    IN
    /\ r.kind = "returned" => r.value.t = "array"
    /\ o.ok =>
         /\ r.kind = "returned"
         /\ v.t = "array" => r.value = v
         /\ v.t \in {"null", "undefined", "string"} => r.value = Arr(0)
         /\ v.t = "object" =>
              IF v.data.t = "array" THEN r.value = v.data
              ELSE IF v.data.t = "object" /\ v.data.data.t = "array"
                THEN r.value = v.data.data
              ELSE IF v.packages.t = "array" THEN r.value = v.packages
              ELSE r.value = Arr(0)
    /\ ~o.ok =>
         /\ r.kind = "threw"
         /\ r.value.t = "Error"
         /\ r.value.message # ""

\* the response {data: {data: [2 items]}, packages: [1 item]} gave the
\* inner list
C19_Witness ==
  /\ PkgDone
  /\ pkgCall.outcome.ok
  /\ pkgCall.outcome.value = Obj(Obj(Arr(2), Null), Arr(1))
  /\ pkgCall.result = [kind |-> "returned", value |-> Arr(2)]

--------------------------------------------------------------------------
(* Termination of the server process after a shutdown signal *)

\* the event loop serves what is ready: the outcome of connectDB, due timers
\* and the close callback; clients need not ever finish their requests
FairShutdown ==
  /\ WF_vars(ConnectOk \/ ConnectFail)
  /\ WF_vars(AdvanceToTimer)
  /\ WF_vars(StartupFire)
  /\ WF_vars(IntervalFire)
  /\ WF_vars(ServerClosed)
  /\ WF_vars(ForceFire)

SpecShutdownFair == SpecShutdown /\ FairShutdown

ForceTimers == {t \in timers : t.kind = "force"}

\* the force timer of the first signal
FirstForce == CHOOSE t \in ForceTimers : \A u \in ForceTimers : TLe(t.due, u.due)

\* C21: once a shutdown signal was received the process terminates; the
\* running process exits with code 0 from the close callback, no request
\* being in flight and no later than the force timer of the first signal is
\* served, and otherwise with code 1 from that force timer, 5 seconds after
\* the signal, whether or not requests are in flight.
C21_ShutdownTerminates ==
  /\ (~listening /\ Len(sweeps) < MaxSweeps) ~> (proc = "exited")
  /\ [][(proc = "running" /\ proc' = "exited") =>
          /\ ForceTimers # {}
          /\ TLe(now, TAdd(FirstForce.due, Ms(MaxLateMs)))
          /\ exitCode' \in {0, 1}
          /\ exitCode' = 0 => inflight = 0
          /\ exitCode' = 1 => TLe(FirstForce.due, now)
          /\ TLt(now, FirstForce.due) => exitCode' = 0]_vars

\* the server closed within the 5 seconds, after the last request finished
\* and a sweep had started during the wait: exit code 0 before the force
\* timer was due
C21_Witness ==
  /\ proc = "exited"
  /\ exitCode = 0
  /\ exitInflight = 0
  /\ ForceTimers # {}
  /\ TLt(now, FirstForce.due)
  /\ Len(sweeps) >= 1
  /\ TLt(TSub(FirstForce.due, FORCE_CLOSE_MS), sweeps[Len(sweeps)].at)

--------------------------------------------------------------------------
(* The sweep and the store connection *)

\* C22: a sweep timer is armed, and a sweep invoked, only in a process whose
\* connectDB has succeeded, the first sweep no sooner than the startup delay
\* after that; a process whose connectDB failed has exited with code 1, has
\* no sweep timer armed and has run no sweep.
C22_NoSweepBeforeConnect ==
  /\ proc = "connecting" => (timers = {} /\ sweeps = << >> /\ exitCode = -1)
  /\ SweepTimers(timers) # {} => proc = "running"
  /\ sweeps # << >> =>
       /\ proc = "running"
       /\ \A k \in DOMAIN sweeps :
            TLe(TAdd(armedAt, STARTUP_DELAY_MS), sweeps[k].at)
  /\ proc = "exited" =>
       /\ exitCode = 1
       /\ SweepTimers(timers) = {}
       /\ sweeps = << >>
       /\ lastDelete = NoDelete

\* connectDB failed: the process has exited with code 1 at boot, no timer
\* armed, no sweep run, every stored customer still there
C22_Witness ==
  /\ proc = "exited"
  /\ exitCode = 1
  /\ now = BootTime
  /\ timers = {}
  /\ sweeps = << >>
  /\ DOMAIN customers = 1 .. NumStoredCustomers

--------------------------------------------------------------------------
(* Eventual deletion of expired "quotation" customers *)

\* the timers are served and the store settles every delete it was sent;
\* whether it answers or rejects is not assumed
FairSweep ==
  /\ WF_vars(AdvanceToTimer)
  /\ WF_vars(StartupFire)
  /\ WF_vars(IntervalFire)
  /\ WF_vars(\E i \in 1 .. MaxSweeps : DeleteManyOk(i) \/ DeleteManyFail(i))

\* the server process with its sweeps, while customers may be cancelled
NextSweep ==
  \/ ConnectOk
  \/ ConnectFail
  \/ StartupFire
  \/ IntervalFire
  \/ \E i \in 1 .. MaxSweeps : DeleteManyOk(i)
  \/ \E i \in 1 .. MaxSweeps : DeleteManyFail(i)
  \/ AdvanceToTimer
  \/ TimerLate
  \/ \E c \in CustomerIds : TransitionCustomer(c, "cancelled")

SpecSweepFair == Init /\ [][NextSweep]_vars /\ FairSweep

\* customer c is stored in "quotation" and is older than 30 days now
Expired(c) ==
  /\ c \in DOMAIN customers
  /\ Eligible(customers[c], now)

\* customer c is deleted or has left "quotation"
Settled(c) ==
  c \in DOMAIN customers => customers[c].status # "quotation"

\* the store rejected the delete of the last sweep the model runs
StoreStillDown ==
  /\ Len(sweeps) = MaxSweeps
  /\ sweeps[MaxSweeps].st = "failed"

\* C23: a customer in "quotation" that is older than 30 days while a sweep
\* is still to come is eventually deleted, or leaves "quotation", unless
\* the store keeps rejecting the deletes up to the last sweep; after a sweep
\* whose delete the store answered, no customer in "quotation" that was
\* older than 30 days at that sweep is left.
C23_ExpiredEventuallyDeleted ==
  /\ \A c \in 1 .. NumStoredCustomers :
       (proc = "running" /\ Len(sweeps) < MaxSweeps /\ Expired(c))
         ~> (Settled(c) \/ StoreStillDown)
  /\ [](\A k \in DOMAIN sweeps :
          sweeps[k].st = "done" =>
            \A c \in DOMAIN customers : ~Eligible(customers[c], sweeps[k].at))

\* the store rejected the delete of the first sweep, the second sweep, one
\* period later, deleted the customers the first one had left
C23_Witness ==
  /\ Len(sweeps) = 2
  /\ sweeps[1].st = "failed"
  /\ sweeps[2].st = "done"
  /\ lastDelete.sweep = 2
  /\ lastDelete.deleted # {}
  /\ \A c \in lastDelete.deleted :
       Eligible(lastDelete.seen[c], sweeps[1].at)
  /\ \A c \in DOMAIN customers : ~Eligible(customers[c], sweeps[2].at)

--------------------------------------------------------------------------
(* The dashboard stats while quotes are submitted and decided *)

\* a quote is submitted or approved between two steps of the handler
QuoteChange ==
  \/ \E c \in CustomerIds : CreateQuote(c)
  \/ \E i \in 1 .. MaxQuotes : TransitionQuote(i, "approved")

\* a request whose queries the store all answers, among changes of quotes
NextDashboardRace ==
  \/ DashRequest
  \/ \E k \in DashQueries : QuerySettle(k, TRUE)
  \/ DashSecondBatch
  \/ DashRespond
  \/ QuoteChange

\* the running server over a store that holds the stored quote or no quote,
\* and one customer more than a recent list shows, one created each day
InitDashboardRace ==
  /\ RestIdle
  /\ now = BootTime
  /\ proc = "running"
  /\ exitCode = -1
  /\ armedAt = BootTime
  /\ timers = {[kind |-> "startup", due |-> FirstSweepDue]}
  /\ sweeps = << >>
  /\ lastDelete = NoDelete
  /\ customers = [c \in 1 .. (RECENT_LIMIT + 1) |->
                    [status |-> "quotation",
                     createdAt |-> TSub(BootTime, TMul(c, Ms(ONE_DAY_MS)))]]
  /\ quotes \in {<< >>, StoredQuotes}
  /\ messages = StoredMessages
  /\ admins = StoredAdmins
  /\ errorLog = 0
  /\ infoLog = 0
  /\ escaped = FALSE
  /\ ticks = 0
  /\ lastCall = NoCall

SpecDashboardRace == InitDashboardRace /\ [][NextDashboardRace]_vars

\* the records of a list are newest first
NewestFirst(list) ==
  \A i, j \in DOMAIN list : i < j => TLe(list[j].createdAt, list[i].createdAt)

\* the stats were sent
StatsSent == dash.pc = "done" /\ dash.responses[1].status = 200

--------------------------------------------------------------------------
(* AdminLayout: the badge with the number of new messages *)

MaxFetches == 3
MaxMounts == 2
MaxCount == 1

\* setInterval(fetchNewCount, 30000)
POLL_MS == 30000

\* what adminAPI.getMessages may resolve to: null, an array, or an object
\* with or without a numeric total and with or without an items array;
\* -1 stands for a property that is absent or of another type
MessageResponses ==
  {[t |-> "null", total |-> -1, items |-> -1, len |-> -1]} \cup
  {[t |-> "array", total |-> -1, items |-> -1, len |-> n] : n \in 0 .. MaxCount}
  \cup
  {[t |-> "object", total |-> n, items |-> m, len |-> -1] :
     n \in -1 .. MaxCount, m \in -1 .. MaxCount}

\* the request settles: it rejects, or resolves to a response
FetchOutcomes ==
  {[ok |-> FALSE, res |-> [t |-> "null", total |-> -1, items |-> -1, len |-> -1]]}
  \cup {[ok |-> TRUE, res |-> r] : r \in MessageResponses}

\* the count fetchNewCount sets for an outcome of its request
newCount(o) ==
  IF ~o.ok THEN 0
  ELSE IF o.res.t = "object" /\ o.res.total >= 0 THEN o.res.total
  ELSE IF o.res.t = "object" /\ o.res.items >= 0 THEN o.res.items
  ELSE IF o.res.t = "array" THEN o.res.len
  ELSE 0

\* fetchNewCount is called: the request is sent
startFetch(by, inst) ==
  Append(layout.fetches, [by |-> by, inst |-> inst, st |-> "pending", result |-> -1])

\* the layout mounts: both effects run, the first fetches the count and sets
\* the interval, the second adds the listener
Mount ==
  /\ ~layout.mounted
  /\ layout.inst < MaxMounts
  /\ Len(layout.fetches) < MaxFetches
  /\ layout' = [layout EXCEPT !.mounted = TRUE,
                              !.inst = @ + 1,
                              !.count = 0,
                              !.timer = TRUE,
                              !.due = layout.t + POLL_MS,
                              !.listener = TRUE,
                              !.fetches = startFetch("mount", layout.inst + 1)]
  /\ UNCHANGED <<backendVars, httpVars, req, dash, rq, pkgCall, screen>>

\* time passes until the interval is due
LayoutClock ==
  /\ layout.timer
  /\ layout.t < layout.due
  /\ layout' = [layout EXCEPT !.t = layout.due]
  /\ UNCHANGED <<backendVars, httpVars, req, dash, rq, pkgCall, screen>>

\* the interval fires: fetchNewCount, and the interval stays set
PollFire ==
  /\ layout.timer
  /\ layout.t = layout.due
  /\ Len(layout.fetches) < MaxFetches
  /\ layout' = [layout EXCEPT !.due = @ + POLL_MS,
                              !.fetches = startFetch("poll", layout.inst)]
  /\ UNCHANGED <<backendVars, httpVars, req, dash, rq, pkgCall, screen>>

\* a sub-page dispatches 'admin:refresh-badges' and the listener runs
RefreshEvent ==
  /\ layout.listener
  /\ Len(layout.fetches) < MaxFetches
  /\ layout' = [layout EXCEPT !.fetches = startFetch("event", layout.inst)]
  /\ UNCHANGED <<backendVars, httpVars, req, dash, rq, pkgCall, screen>>

\* the request of fetch i settles and fetchNewCount sets the count; the state
\* of an instance that is no longer mounted is gone
FetchSettle(i, o) ==
  /\ i \in DOMAIN layout.fetches
  /\ layout.fetches[i].st = "pending"
  /\ layout' = [layout EXCEPT
                  !.fetches[i].st = "done",
                  !.fetches[i].result = newCount(o),
                  !.last = [i |-> i, o |-> o],
                  !.count = IF layout.mounted /\ layout.fetches[i].inst = layout.inst
                            THEN newCount(o) ELSE @]
  /\ UNCHANGED <<backendVars, httpVars, req, dash, rq, pkgCall, screen>>

\* an unmount whose cleanup leaves the interval set
UnmountKeepsInterval ==
  /\ layout.mounted
  /\ layout' = [layout EXCEPT !.mounted = FALSE, !.listener = FALSE]
  /\ UNCHANGED <<backendVars, httpVars, req, dash, rq, pkgCall, screen>>

\* the layout unmounts: the cleanups clear the interval and remove the listener
Unmount ==
  /\ layout.mounted
  /\ layout' = [layout EXCEPT !.mounted = FALSE, !.timer = FALSE,
                              !.listener = FALSE]
  /\ UNCHANGED <<backendVars, httpVars, req, dash, rq, pkgCall, screen>>

NextLayout ==
  \/ Mount
  \/ LayoutClock
  \/ PollFire
  \/ RefreshEvent
  \/ \E i \in 1 .. MaxFetches, o \in FetchOutcomes : FetchSettle(i, o)
  \/ Unmount

SpecLayout == InitLifecycle /\ [][NextLayout]_vars

\* a fetch is started in this step
FetchStarted == Len(layout'.fetches) = Len(layout.fetches) + 1

\* the response has none of the shapes fetchNewCount knows
Unrecognized(r) ==
  /\ ~(r.t = "object" /\ r.total >= 0)
  /\ ~(r.t = "object" /\ r.items >= 0)
  /\ r.t # "array"

\* C25: the count is fetched once when the layout mounts, once each time the
\* 30 s interval fires and once for each refresh event, and by nothing else;
\* a fetch that fails or gets an unrecognized shape sets the count to 0;
\* the unmounted layout has no interval and no listener and starts no fetch.
C25_BadgePolling ==
  [][/\ Len(layout'.fetches) \in {Len(layout.fetches), Len(layout.fetches) + 1}
     /\ (~layout.mounted /\ layout'.mounted) =>
          /\ FetchStarted
          /\ layout'.fetches[Len(layout'.fetches)].by = "mount"
          /\ layout'.timer /\ layout'.listener
          /\ layout'.due = layout.t + 30000
     /\ (FetchStarted /\ layout.mounted) =>
          LET f == layout'.fetches[Len(layout'.fetches)] IN
          /\ layout'.mounted
          /\ f.inst = layout.inst
          /\ f.by \in {"poll", "event"}
          /\ f.by = "poll" =>
               /\ layout.timer /\ layout.t = layout.due
               /\ layout'.due = layout.due + 30000
          /\ f.by = "event" => layout.listener /\ layout'.due = layout.due
     /\ (layout.mounted /\ layout'.mounted /\ layout'.t # layout.t) =>
          (layout'.t = layout.due /\ ~FetchStarted)
     /\ ~layout'.mounted => (~layout'.timer /\ ~layout'.listener)
     /\ (~layout.mounted /\ ~layout'.mounted) => ~FetchStarted
     /\ layout'.last # layout.last =>
          LET i == layout'.last.i
              o == layout'.last.o
          IN
          /\ layout.fetches[i].st = "pending"
          /\ (layout.mounted /\ layout.fetches[i].inst = layout.inst) =>
               /\ (~o.ok \/ Unrecognized(o.res)) => layout'.count = 0
               /\ (o.ok /\ o.res.t = "object" /\ o.res.total >= 0) =>
                    layout'.count = o.res.total]_vars

\* mounted twice: the first instance fetched on mount and on a poll 30 s
\* later and was unmounted; the second fetched on mount and, its fetch
\* having failed, shows 0
C25_Witness ==
  /\ layout.mounted
  /\ layout.inst = 2
  /\ Len(layout.fetches) = 3
  /\ layout.fetches[1].by = "mount"
  /\ layout.fetches[2].by = "poll"
  /\ layout.fetches[3].by = "mount"
  /\ layout.fetches[3].inst = 2
  /\ layout.last.i = 3
  /\ ~layout.last.o.ok
  /\ layout.count = 0
  /\ layout.t = 30000

\* the fetches of the mounted instance
OwnFetches ==
  { i \in DOMAIN layout.fetches : layout.fetches[i].inst = layout.inst }

\* C26: once every fetch of the mounted layout has completed, the count
\* shown is the result of the fetch that was started last.
C26_NewestFetchWins ==
  ( /\ layout.mounted
    /\ OwnFetches # {}
    /\ \A i \in OwnFetches : layout.fetches[i].st = "done" ) =>
      \E i \in OwnFetches :
        /\ \A j \in OwnFetches : j <= i
        /\ layout.count = layout.fetches[i].result

\* ------------------------------------------------------------------------
\* The packages management screen (PackagesManagement): the list shown, the
\* add form, and the delete and create handlers.  A handler that awaits a
\* request keeps the `packages` value of the render it was created in.

MaxOps == 2

\* the list loaded by loadPackages
InitialPackages == { ScreenLoaded.packages[i] : i \in DOMAIN ScreenLoaded.packages }

Whitespace == {" "}

DigitChars == << "0", "1", "2", "3", "4", "5", "6", "7", "8", "9" >>

IsDigit(c) == \E i \in DOMAIN DigitChars : DigitChars[i] = c

DigitVal(c) == (CHOOSE i \in DOMAIN DigitChars : DigitChars[i] = c) - 1

RECURSIVE trimStart(_)
trimStart(s) ==
  IF s # << >> /\ Head(s) \in Whitespace THEN trimStart(Tail(s)) ELSE s

RECURSIVE trimEnd(_)
trimEnd(s) ==
  IF s # << >> /\ s[Len(s)] \in Whitespace
  THEN trimEnd(SubSeq(s, 1, Len(s) - 1)) ELSE s

\* String.prototype.trim
trim(s) == trimEnd(trimStart(s))

\* the longest prefix of decimal digits of s
RECURSIVE digitPrefix(_)
digitPrefix(s) ==
  IF s # << >> /\ IsDigit(Head(s))
  THEN << Head(s) >> \o digitPrefix(Tail(s)) ELSE << >>

RECURSIVE digitsValue(_)
digitsValue(s) ==
  IF s = << >> THEN 0
  ELSE 10 * digitsValue(SubSeq(s, 1, Len(s) - 1)) + DigitVal(s[Len(s)])

\* parseFloat of a string of digits, sign, point and other characters:
\* leading whitespace is skipped, then an optional sign, then digits with an
\* optional fraction; what follows is ignored; without a digit the result is
\* NaN.  The value is kept in tenths (the inputs have at most one fractional
\* digit).
parseFloat(str) ==
  LET s0 == trimStart(str)
      neg == s0 # << >> /\ Head(s0) = "-"
      s1 == IF s0 # << >> /\ Head(s0) \in {"-", "+"} THEN Tail(s0) ELSE s0
      ip == digitPrefix(s1)
      r1 == SubSeq(s1, Len(ip) + 1, Len(s1))
      fp == IF r1 # << >> /\ Head(r1) = "." THEN digitPrefix(Tail(r1)) ELSE << >>
      mag == 10 * digitsValue(ip) + (IF fp = << >> THEN 0 ELSE DigitVal(fp[1]))
  IN IF ip = << >> /\ fp = << >>
     THEN [nan |-> TRUE, tenths |-> 0]
     ELSE [nan |-> FALSE, tenths |-> IF neg THEN 0 - mag ELSE mag]

\* parseFloat(newPackage.price) || 0, in tenths
packagePrice(str) ==
  LET f == parseFloat(str) IN IF f.nan THEN 0 ELSE f.tenths

\* what the admin can type into the name and price fields
NameInputs == { << >>, << " " >>, << " ", "a", " " >> }

PriceInputs ==
  { << "a" >>, << "0" >>, << "-", "5" >>, << "0", ".", "5" >>,
    << " ", "7", "a" >> }

\* the template the form is reset to
StarterTemplate == ScreenLoaded.newPackage

\* the responses of the create request as createNewPackage hands them on
CreateOutcomes == {"created", "nodata", "401", "400", "failed"}

\* the message handleAddPackage's catch block derives from the error
createError(o) ==
  CASE o = "401" -> "Authentication failed. Please log in again."
    [] o = "400" -> "Invalid package data. Please check all fields."
    [] o = "nodata" -> "No response data from server"
    [] OTHER -> "Network error: Could not connect to the server. Please check your connection."

RECURSIVE filterOut(_, _)
\* packages.filter(pkg => pkg._id !== id)
filterOut(list, id) ==
  IF list = << >> THEN << >>
  ELSE IF Head(list) = id THEN filterOut(Tail(list), id)
       ELSE << Head(list) >> \o filterOut(Tail(list), id)

\* the admin edits the add form, or picks the template
EditForm(name, price) ==
  /\ screen.location = "packages"
  /\ [name |-> name, price |-> price] # screen.newPackage
  /\ screen' = [screen EXCEPT !.newPackage = [name |-> name, price |-> price]]
  /\ UNCHANGED <<backendVars, httpVars, req, dash, rq, pkgCall, layout>>

\* handleDelete up to its await: the confirm dialog, the token, the request
HandleDelete(id, confirmed, token) ==
  /\ screen.location = "packages"
  /\ Len(screen.ops) < MaxOps
  /\ \E k \in DOMAIN screen.packages : screen.packages[k] = id
  /\ IF ~confirmed
     THEN screen' = screen
     ELSE IF ~token
     THEN screen' = [screen EXCEPT
                       !.error = "Authentication required. Please log in again.",
                       !.location = "login"]
     ELSE screen' = [screen EXCEPT
                       !.ops = Append(@, [kind |-> "delete", id |-> id,
                                          snap |-> screen.packages,
                                          st |-> "pending", token |-> token])]
  /\ UNCHANGED <<backendVars, httpVars, req, dash, rq, pkgCall, layout>>

\* the delete request completes and handleDelete resumes
DeleteSettle(i, ok) ==
  /\ i \in DOMAIN screen.ops
  /\ screen.ops[i].kind = "delete"
  /\ screen.ops[i].st = "pending"
  /\ ok => screen.ops[i].id \in screen.server
  /\ screen' =
       IF ok
       THEN [screen EXCEPT
               !.server = @ \ {screen.ops[i].id},
               !.ops[i].st = "ok",
               !.packages = filterOut(screen.ops[i].snap, screen.ops[i].id)]
       ELSE [screen EXCEPT
               !.ops[i].st = "failed",
               !.error = "Failed to delete package"]
  /\ UNCHANGED <<backendVars, httpVars, req, dash, rq, pkgCall, layout>>

\* the checks handleAddPackage makes before it sends the request
addRejection(pkg, token) ==
  IF trim(pkg.name) = << >> THEN "Package name is required"
  ELSE IF packagePrice(pkg.price) <= 0 THEN "Price must be greater than 0"
  ELSE IF ~token THEN "Authentication required. Please log in again."
  ELSE "none"

\* handleAddPackage up to its await
HandleAddPackage(token) ==
  /\ screen.location = "packages"
  /\ Len(screen.ops) < MaxOps
  /\ LET why == addRejection(screen.newPackage, token)
         op == [kind |-> "create", id |-> 0, snap |-> screen.packages,
                st |-> IF why = "none" THEN "pending" ELSE "rejected",
                token |-> token]
     IN screen' =
          IF why = "none"
          THEN [screen EXCEPT !.loadingAdd = TRUE,
                              !.sent = @ + 1,
                              !.ops = Append(@, op)]
          ELSE [screen EXCEPT !.loadingAdd = FALSE,
                              !.error = why,
                              !.ops = Append(@, op),
                              !.location =
                                 IF trim(screen.newPackage.name) # << >>
                                    /\ packagePrice(screen.newPackage.price) > 0
                                 THEN "login" ELSE @]
  /\ UNCHANGED <<backendVars, httpVars, req, dash, rq, pkgCall, layout>>

\* the id the server gives the next package it stores
nextPackageId ==
  Cardinality(InitialPackages)
    + Cardinality({ i \in DOMAIN screen.ops :
                      screen.ops[i].kind = "create" /\ screen.ops[i].st = "ok" })
    + 1

\* a create whose failure leaves the loading flag as it was
CreateSettleNoFinally(i, o) ==
  /\ i \in DOMAIN screen.ops
  /\ screen.ops[i].kind = "create"
  /\ screen.ops[i].st = "pending"
  /\ screen' =
       IF o = "created"
       THEN [screen EXCEPT
               !.server = @ \cup {nextPackageId},
               !.ops[i].st = "ok",
               !.ops[i].id = nextPackageId,
               !.packages = Append(screen.ops[i].snap, nextPackageId),
               !.newPackage = StarterTemplate,
               !.error = "none",
               !.loadingAdd = FALSE]
       ELSE [screen EXCEPT
               !.ops[i].st = "failed",
               !.error = createError(o)]
  /\ UNCHANGED <<backendVars, httpVars, req, dash, rq, pkgCall, layout>>

\* the create request completes and handleAddPackage resumes: the try
\* block's success path or the catch block, then the finally block
CreateSettle(i, o) ==
  /\ i \in DOMAIN screen.ops
  /\ screen.ops[i].kind = "create"
  /\ screen.ops[i].st = "pending"
  /\ screen' =
       IF o = "created"
       THEN [screen EXCEPT
               !.server = @ \cup {nextPackageId},
               !.ops[i].st = "ok",
               !.ops[i].id = nextPackageId,
               !.packages = Append(screen.ops[i].snap, nextPackageId),
               !.newPackage = StarterTemplate,
               !.error = "none",
               !.loadingAdd = FALSE]
       ELSE [screen EXCEPT
               !.ops[i].st = "failed",
               !.error = createError(o),
               !.loadingAdd = FALSE]
  /\ UNCHANGED <<backendVars, httpVars, req, dash, rq, pkgCall, layout>>

NextScreen ==
  \/ \E name \in NameInputs \cup {StarterTemplate.name},
        price \in PriceInputs \cup {StarterTemplate.price} : EditForm(name, price)
  \/ \E id \in 1 .. (Cardinality(InitialPackages) + MaxOps),
        confirmed \in BOOLEAN, token \in BOOLEAN :
          HandleDelete(id, confirmed, token)
  \/ \E i \in 1 .. MaxOps, ok \in BOOLEAN : DeleteSettle(i, ok)
  \/ \E token \in BOOLEAN : HandleAddPackage(token)
  \/ \E i \in 1 .. MaxOps, o \in CreateOutcomes : CreateSettle(i, o)

SpecScreen == InitLifecycle /\ [][NextScreen]_vars

\* the packages whose delete, and whose create, succeeded
DeletedPackages ==
  { screen.ops[i].id : i \in { j \in DOMAIN screen.ops :
      screen.ops[j].kind = "delete" /\ screen.ops[j].st = "ok" } }

CreatedPackages ==
  { screen.ops[i].id : i \in { j \in DOMAIN screen.ops :
      screen.ops[j].kind = "create" /\ screen.ops[j].st = "ok" } }

DisplayedPackages == { screen.packages[k] : k \in DOMAIN screen.packages }

\* C27: once every delete and create that was started has succeeded, the
\* list shown is the initial list without the deleted packages and with the
\* created ones.
C27_ListFollowsOperations ==
  ( /\ screen.location = "packages"
    /\ screen.ops # << >>
    /\ \A i \in DOMAIN screen.ops : screen.ops[i].st = "ok" ) =>
      DisplayedPackages = (InitialPackages \ DeletedPackages) \cup CreatedPackages

\* the add handler was called in this step
AddCalled ==
  /\ Len(screen'.ops) = Len(screen.ops) + 1
  /\ screen'.ops[Len(screen'.ops)].kind = "create"

\* the name, price and token the handler reads allow the request
CanSend ==
  /\ trim(screen.newPackage.name) # << >>
  /\ packagePrice(screen.newPackage.price) > 0
  /\ screen'.ops[Len(screen'.ops)].token

\* C28: handleAddPackage sends the create request exactly when the name is
\* not blank, the parsed price is above 0 and a token is present; otherwise
\* it sends nothing, leaves the list as it is and sets an error; whenever
\* the handler finishes, loadingAdd is false.
C28_AddValidatesAndClearsLoading ==
  [][ /\ screen'.sent # screen.sent =>
           AddCalled /\ CanSend /\ screen'.sent = screen.sent + 1
      /\ (AddCalled /\ CanSend) =>
           /\ screen'.sent = screen.sent + 1
           /\ screen'.ops[Len(screen'.ops)].st = "pending"
           /\ screen'.packages = screen.packages
      /\ (AddCalled /\ ~CanSend) =>
           /\ screen'.sent = screen.sent
           /\ screen'.packages = screen.packages
           /\ screen'.server = screen.server
           /\ screen'.error # "none"
           /\ screen'.ops[Len(screen'.ops)].st = "rejected"
           /\ ~screen'.loadingAdd
      /\ \A i \in DOMAIN screen.ops :
           ( /\ screen.ops[i].kind = "create"
             /\ screen.ops[i].st = "pending"
             /\ screen'.ops[i].st # "pending" ) => ~screen'.loadingAdd
    ]_vars

\* a create went through and cleared the error; then a form whose price
\* parses to nothing was submitted: nothing more was sent, the list kept the
\* created package, an error is shown and the flag is down
C28_Witness ==
  /\ Len(screen.ops) = 2
  /\ screen.ops[1].kind = "create" /\ screen.ops[1].st = "ok"
  /\ screen.ops[2].kind = "create" /\ screen.ops[2].st = "rejected"
  /\ screen.newPackage.price = << "a" >>
  /\ screen.sent = 1
  /\ screen.packages = << 1, 2, 3 >>
  /\ screen.error = "Price must be greater than 0"
  /\ ~screen.loadingAdd

\* ------------------------------------------------------------------------
\* packageService.createPackage and updatePackage: the uploads of the
\* supplied files, then the payload of the request.

MaxFiles == 2

MaxImages == 2

WriteOps == {"createPackage", "updatePackage"}

FileKeys == {"imageFile", "imagesFiles", "imagesFile", "image"}

Text(v) == [t |-> "string", v |-> v]

List(s) == [t |-> "list", v |-> s]

\* a File picked in the form, and a value that is not a File
AFile == [t |-> "File", v |-> "picked"]

NotAFile == Text("path")

\* an image object as the backend stores it
Image(url, primary) == [t |-> "image", url |-> url, isPrimary |-> primary]

ListsUpTo(S, n) == UNION { [1 .. k -> S] : k \in 0 .. n }

FileItems == {AFile, NotAFile}

FileValues == FileItems \cup { List(s) : s \in ListsUpTo(FileItems, MaxFiles) }

FewFileValues == {AFile, List(<< >>)}

ImageEntries ==
  { [t |-> "string", url |-> "u", isPrimary |-> FALSE],
    Image("v", TRUE), Image("v", FALSE) }

ImagesValues ==
  {Text("notalist")} \cup { List(s) : s \in ListsUpTo(ImageEntries, MaxImages) }

ImageUrlValues == {Text(""), Text("u")}

Maybe(S) == S \cup {Undefined}

\* the packageData objects the screens can pass
PackageInputs ==
  [name : {Text("n")},
   imageFile : Maybe(FileValues),
   image : Maybe(FewFileValues),
   imagesFiles : Maybe(FewFileValues),
   imagesFile : Maybe(FewFileValues),
   images : Maybe(ImagesValues),
   imageUrl : Maybe(ImageUrlValues)]

\* JavaScript truthiness of the values above
isTruthy(v) ==
  IF v.t = "undefined" THEN FALSE
  ELSE IF v.t = "string" THEN v.v # ""
  ELSE TRUE

\* a || b
orElse(a, b) == IF isTruthy(a) THEN a ELSE b

\* toArray: (Array.isArray(v) ? v : (v ? [v] : []))
toArray(v) ==
  IF v.t = "list" THEN v.v
  ELSE IF isTruthy(v) THEN << v >> ELSE << >>

\* toArray(imageFile || image || imagesFiles || imagesFile)
imageFiles(data) ==
  toArray(orElse(orElse(orElse(data.imageFile, data.image),
                        data.imagesFiles), data.imagesFile))

UploadOutcomes == {"url", "nourl", "threw"}

\* images.map((u, idx) => typeof u === 'string' ? {url: u, isPrimary: idx === 0} : u)
mapImages(s) ==
  [idx \in DOMAIN s |->
     IF s[idx].t = "string" THEN Image(s[idx].url, idx = 1) ELSE s[idx]]

\* payload.images after the three branches
payloadImages(op, data, uploaded) ==
  IF uploaded # << >> THEN List(uploaded)
  ELSE IF data.images.t = "list" THEN List(mapImages(data.images.v))
  ELSE IF op = "createPackage"
    THEN IF isTruthy(data.imageUrl)
         THEN List(<< Image(data.imageUrl.v, TRUE) >>) ELSE data.images
  ELSE IF data.imageUrl # Undefined
    THEN IF isTruthy(data.imageUrl)
         THEN List(<< Image(data.imageUrl.v, TRUE) >>) ELSE List(<< >>)
  ELSE data.images

\* { ...packageData } with images set and the four file fields deleted
buildPayload(op, data, uploaded) ==
  [data EXCEPT !.images = payloadImages(op, data, uploaded),
               !.imageFile = Undefined,
               !.imagesFiles = Undefined,
               !.imagesFile = Undefined,
               !.image = Undefined]

\* no write call is under way
WriteIdle ==
  IF pkgCall.op = "none" THEN TRUE ELSE pkgCall.st \in {"done", "failed"}

\* a screen calls createPackage or updatePackage
CallPackageWrite(op, data) ==
  /\ WriteIdle
  /\ pkgCall' = [op |-> op, st |-> "uploading", data |-> data,
                 files |-> imageFiles(data), i |-> 0, uploaded |-> << >>]
  /\ UNCHANGED <<backendVars, httpVars, req, dash, rq, uiVars>>

\* one round of the upload loop: a File is uploaded and its url, if the
\* response has one, is pushed; anything else is passed over
UploadLoop(o) ==
  /\ pkgCall.op \in WriteOps
  /\ pkgCall.st = "uploading"
  /\ pkgCall.i < Len(pkgCall.files)
  /\ LET file == pkgCall.files[pkgCall.i + 1]
     IN IF file.t = "File"
        THEN pkgCall' =
               IF o = "threw" THEN [op |-> pkgCall.op, st |-> "failed"]
               ELSE [pkgCall EXCEPT
                       !.i = @ + 1,
                       !.uploaded = IF o = "url"
                                    THEN Append(@, Image("up", pkgCall.i = 0))
                                    ELSE @]
        ELSE /\ o = "nourl"
             /\ pkgCall' = [pkgCall EXCEPT !.i = @ + 1]
  /\ UNCHANGED <<backendVars, httpVars, req, dash, rq, uiVars>>

\* after the loop the payload is built and the request is sent
SendPayload ==
  /\ pkgCall.op \in WriteOps
  /\ pkgCall.st = "uploading"
  /\ pkgCall.i = Len(pkgCall.files)
  /\ pkgCall' = [op |-> pkgCall.op, st |-> "sent", data |-> pkgCall.data,
                 files |-> pkgCall.files, i |-> pkgCall.i,
                 uploaded |-> pkgCall.uploaded,
                 payload |-> buildPayload(pkgCall.op, pkgCall.data,
                                          pkgCall.uploaded)]
  /\ UNCHANGED <<backendVars, httpVars, req, dash, rq, uiVars>>

\* the request settles: the call returns or throws
WriteSettle(ok) ==
  /\ pkgCall.op \in WriteOps
  /\ pkgCall.st = "sent"
  /\ pkgCall' = [op |-> pkgCall.op, st |-> IF ok THEN "done" ELSE "failed"]
  /\ UNCHANGED <<backendVars, httpVars, req, dash, rq, uiVars>>

NextPayload ==
  \/ /\ WriteIdle
     /\ \E op \in WriteOps, data \in PackageInputs : CallPackageWrite(op, data)
  \/ \E o \in UploadOutcomes : UploadLoop(o)
  \/ SendPayload
  \/ \E ok \in BOOLEAN : WriteSettle(ok)

SpecPayload == InitLifecycle /\ [][NextPayload]_vars

\* the request of a write call is out
PayloadSent ==
  IF pkgCall.op \in WriteOps THEN pkgCall.st = "sent" ELSE FALSE

\* s is empty, or its first entry is primary and no other entry is
OnePrimaryFirst(s) ==
  \/ s = << >>
  \/ /\ s[1].isPrimary
     /\ \A k \in DOMAIN s : k > 1 => ~s[k].isPrimary

AllUrlStrings(v) ==
  IF v.t = "list" THEN \A k \in DOMAIN v.v : v.v[k].t = "string" ELSE FALSE

\* C29: the payload's images are the uploads if there are any, else the
\* given images array with its strings turned into image objects, else the
\* single imageUrl; the payload has none of imageFile, imagesFiles,
\* imagesFile, image; images built from uploads or from URL strings are
\* empty or have exactly one primary entry, the first.
C29_PayloadImages ==
  PayloadSent =>
    LET d == pkgCall.data
        p == pkgCall.payload
        up == pkgCall.uploaded
    IN /\ up # << >> => p.images = List(up)
       /\ (up = << >> /\ d.images.t = "list") =>
            /\ p.images.t = "list"
            /\ Len(p.images.v) = Len(d.images.v)
            /\ \A k \in DOMAIN d.images.v :
                 IF d.images.v[k].t = "string"
                 THEN /\ p.images.v[k].t = "image"
                      /\ p.images.v[k].url = d.images.v[k].url
                 ELSE p.images.v[k] = d.images.v[k]
       /\ (up = << >> /\ d.images.t # "list" /\ isTruthy(d.imageUrl)) =>
            p.images = List(<< Image(d.imageUrl.v, TRUE) >>)
       /\ \A k \in FileKeys : p[k] = Undefined
       /\ (up # << >> \/ (up = << >> /\ AllUrlStrings(d.images))) =>
            OnePrimaryFirst(p.images.v)

==========================================================================
